---- MODULE Spec2Model ----
(***************************************************************************)
(* typesafe-config: scanner, parser, node set and Config resolver.         *)
(*                                                                         *)
(* Text is a sequence of one-character strings.  Byte offsets are 0-based  *)
(* as in the Go source, so the rune at offset p is input[p + 1].           *)
(*                                                                         *)
(* parse.go and config.go are written against a scanner that emits         *)
(* itemHardSubstitution / itemSoftSubstitution and against a FieldNode     *)
(* with the fields Hard and Fallback built by newField(pos, key, hard).    *)
(* Neither declaration is part of the available sources (the scanner file  *)
(* and node.go predate them), so the closing-brace branch of the two       *)
(* substitution scanners and the FieldNode methods follow the written      *)
(* specification; everything else follows the Go code.                     *)
(***************************************************************************)
EXTENDS Integers, Sequences, FiniteSets, TLC

(***************************************************************************)
(* Characters                                                              *)
(***************************************************************************)
NL == "\n"
CR == "\r"
TAB == "\t"
DQ == "\""
BSL == "\\"
\* the backtick rune (the character itself cannot be written in a string)
BQ == "bq"
EOFR == "eof"

Digits == {"0", "1", "2", "3", "4", "5", "6", "7", "8", "9"}

HexDigits == Digits \cup {"a", "b", "c", "d", "e", "f", "A", "B", "C", "D", "E", "F"}

Letters ==
  {"a", "b", "c", "d", "e", "f", "g", "h", "i", "j", "k", "l", "m", "n", "o",
   "p", "q", "r", "s", "t", "u", "v", "w", "x", "y", "z",
   "A", "B", "C", "D", "E", "F", "G", "H", "I", "J", "K", "L", "M", "N", "O",
   "P", "Q", "R", "S", "T", "U", "V", "W", "X", "Y", "Z"}

isSpace(r) == r = " " \/ r = TAB

isEndOfLine(r) == r = CR \/ r = NL

isAlphaNumeric(r) == r = "_" \/ r = "-" \/ r \in Letters \/ r \in Digits

(***************************************************************************)
(* Scanner                                                                 *)
(***************************************************************************)
item(typ, pos, val) == [typ |-> typ, pos |-> pos, val |-> val]

\* l.input[from:to] with Go's 0-based half-open bounds
Slice(s, from, to) == IF to <= from THEN << >> ELSE SubSeq(s, from + 1, to)

newLexer(input) ==
  [input |-> input, pos |-> 0, start |-> 0, width |-> 0, items |-> << >>,
   state |-> "lexNextToken"]

\* the rune l.next() returns
nextRune(l) == IF l.pos >= Len(l.input) THEN EOFR ELSE l.input[l.pos + 1]

\* the scanner after l.next()
next(l) ==
  IF l.pos >= Len(l.input)
  THEN [l EXCEPT !.width = 0]
  ELSE [l EXCEPT !.width = 1, !.pos = l.pos + 1]

backup(l) == [l EXCEPT !.pos = l.pos - l.width]

\* peek is next followed by backup: the position is unchanged, width is set
peek(l) == backup(next(l))

emit(l, t) ==
  [l EXCEPT !.items = Append(l.items, item(t, l.start, Slice(l.input, l.start, l.pos))),
            !.start = l.pos]

ignore(l) == [l EXCEPT !.start = l.pos]

errorf(l, msg) ==
  [l EXCEPT !.items = Append(l.items, item("itemError", l.start, msg)),
            !.state = "nil"]

to(l, st) == [l EXCEPT !.state = st]

accept(l, valid) == IF nextRune(l) \in valid THEN next(l) ELSE backup(next(l))

RECURSIVE acceptRun(_, _)
acceptRun(l, valid) ==
  IF nextRune(l) \in valid THEN acceptRun(next(l), valid) ELSE backup(next(l))

\* index of the first "*/" at or after offset p, or -1
RECURSIVE indexRightComment(_, _)
indexRightComment(s, p) ==
  IF p + 2 > Len(s) THEN -1
  ELSE IF s[p + 1] = "*" /\ s[p + 2] = "/" THEN p
  ELSE indexRightComment(s, p + 1)

lexComment(l) ==
  LET i == indexRightComment(l.input, l.pos)
  IN  IF i < 0 THEN errorf(l, "unclosed comment")
      ELSE to(ignore([l EXCEPT !.pos = i + 2]), "lexNextToken")

RECURSIVE lexDoubleSlashComment(_)
lexDoubleSlashComment(l) ==
  LET r == nextRune(l)
  IN  IF r = EOFR \/ isEndOfLine(r)
      THEN to(ignore(backup(next(l))), "lexNextToken")
      ELSE lexDoubleSlashComment(next(l))

RECURSIVE lexQuote(_)
lexQuote(l) ==
  LET r == nextRune(l)
      l1 == next(l)
  IN  CASE r = BSL ->
             IF nextRune(l1) # EOFR /\ nextRune(l1) # NL
             THEN lexQuote(next(l1))
             ELSE errorf(next(l1), "unterminated quoted string")
        [] r = EOFR \/ r = NL -> errorf(l1, "unterminated quoted string")
        [] r = DQ -> to(emit(l1, "itemString"), "lexNextToken")
        [] OTHER -> lexQuote(l1)

RECURSIVE lexRawQuote(_)
lexRawQuote(l) ==
  LET r == nextRune(l)
      l1 == next(l)
  IN  CASE r = EOFR \/ r = NL -> errorf(l1, "unterminated raw quoted string")
        [] r = BQ -> to(emit(l1, "itemString"), "lexNextToken")
        [] OTHER -> lexRawQuote(l1)

SubstErr == "variable substitution can only include letters, numbers, dot, dash or underscore."

RECURSIVE lexIgnoreIfEmptySubstitution(_)
lexIgnoreIfEmptySubstitution(l) ==
  LET r == nextRune(l)
      l1 == next(l)
  IN  CASE isAlphaNumeric(r) \/ r \in {".", "_", "-"} -> lexIgnoreIfEmptySubstitution(l1)
        [] r = "}" -> to(emit(l1, "itemSoftSubstitution"), "lexNextToken")
        [] OTHER -> errorf(l1, SubstErr)

RECURSIVE lexNormalSubstitution(_)
lexNormalSubstitution(l) ==
  LET r == nextRune(l)
      l1 == next(l)
  IN  CASE isAlphaNumeric(r) \/ r \in {".", "_", "-"} -> lexNormalSubstitution(l1)
        [] r = "}" -> to(emit(l1, "itemHardSubstitution"), "lexNextToken")
        [] OTHER -> errorf(l1, SubstErr)

lexSubstitution(l) ==
  IF nextRune(l) = "{"
  THEN LET l1 == next(l)
       IN  IF nextRune(l1) = "?"
           THEN lexIgnoreIfEmptySubstitution(next(peek(l1)))
           ELSE lexNormalSubstitution(peek(l1))
  ELSE to(next(l), "lexNextToken")

RECURSIVE lexSpace(_)
lexSpace(l) ==
  IF isSpace(nextRune(l)) THEN lexSpace(next(peek(l)))
  ELSE to(emit(peek(l), "itemSpace"), "lexNextToken")

RECURSIVE lexUnquotedText(_)
lexUnquotedText(l) ==
  LET r == nextRune(l)
  IN  IF isAlphaNumeric(r) \/ r = "."
      THEN lexUnquotedText(next(l))
      ELSE LET l1 == backup(next(l))
               word == Slice(l1.input, l1.start, l1.pos)
           IN  CASE word \in {<<"t", "r", "u", "e">>, <<"f", "a", "l", "s", "e">>,
                              <<"o", "n">>, <<"o", "f", "f">>} ->
                      to(emit(l1, "itemBool"), "lexNextToken")
                 [] word = <<"n", "i", "l">> -> to(emit(l1, "itemNull"), "lexNextToken")
                 [] OTHER -> to(emit(l1, "itemUnquotedText"), "lexNextToken")

scanNumber(l) ==
  LET l1 == accept(l, {"+", "-"})
      l2 == accept(l1, {"0"})
      isZero == nextRune(l1) = "0"
      l3 == IF isZero THEN accept(l2, {"x", "X"}) ELSE l2
      isHex == isZero /\ nextRune(l2) \in {"x", "X"}
      digits == IF isHex THEN HexDigits ELSE Digits
      l4 == acceptRun(l3, digits)
      l5 == accept(l4, {"."})
      l6 == IF nextRune(l4) = "." THEN acceptRun(l5, digits) ELSE l5
      l7 == accept(l6, {"e", "E"})
      l8 == IF nextRune(l6) \in {"e", "E"}
            THEN acceptRun(accept(l7, {"+", "-"}), Digits)
            ELSE l7
  IN  accept(l8, {"i"})

lexNumber(l) ==
  LET l1 == scanNumber(l)
      sign == nextRune(l1)
      l2 == peek(l1)
  IN  IF sign = "+" \/ sign = "-"
      THEN LET l3 == scanNumber(l2)
           IN  IF l3.input[l3.pos] # "i"
               THEN errorf(l3, "bad number syntax")
               ELSE to(emit(l3, "itemComplex"), "lexNextToken")
      ELSE to(emit(l2, "itemNumber"), "lexNextToken")

lexPlusEquals(l) ==
  IF nextRune(l) = "=" THEN to(emit(next(l), "itemPlusEquals"), "lexNextToken")
  ELSE errorf(next(l), "expected +=")

lexNextToken(l) ==
  LET r == nextRune(l)
      l1 == next(l)
  IN  CASE r = EOFR -> to(emit(l1, "itemEOF"), "lexNextToken")
        [] isEndOfLine(r) -> to(emit(l1, "itemNewLine"), "lexNextToken")
        [] isSpace(r) -> to(l1, "lexSpace")
        [] r = "/" ->
             LET rr == nextRune(l1)
             IN  IF rr = "/" THEN to(next(l1), "lexDoubleSlashComment")
                 ELSE IF rr = "*" THEN to(next(l1), "lexComment")
                 ELSE errorf(next(l1), "expected // or /*")
        [] r = "#" -> to(l1, "lexDoubleSlashComment")
        [] r = DQ -> to(l1, "lexQuote")
        [] r = BQ -> to(l1, "lexRawQuote")
        [] r = ":" -> to(emit(l1, "itemColon"), "lexNextToken")
        [] r = "," -> to(emit(l1, "itemComma"), "lexNextToken")
        [] r = "=" -> to(emit(l1, "itemEquals"), "lexNextToken")
        [] r = "{" -> to(emit(l1, "itemOpenCurly"), "lexNextToken")
        [] r = "}" -> to(emit(l1, "itemCloseCurly"), "lexNextToken")
        [] r = "[" -> to(emit(l1, "itemOpenSquare"), "lexNextToken")
        [] r = "]" -> to(emit(l1, "itemCloseSquare"), "lexNextToken")
        [] r = "$" -> to(l1, "lexSubstitution")
        [] r = "+" -> to(l1, "lexPlusEquals")
        [] r = "-" \/ r \in Digits -> to(backup(l1), "lexNumber")
        [] isAlphaNumeric(r) -> to(backup(l1), "lexUnquotedText")
        [] OTHER -> errorf(l1, "unrecognized character in action")

\* one pass of the loop in lexer.run: l.state = l.state(l)
stateStep(l) ==
  CASE l.state = "lexNextToken" -> lexNextToken(l)
    [] l.state = "lexSpace" -> lexSpace(l)
    [] l.state = "lexComment" -> lexComment(l)
    [] l.state = "lexDoubleSlashComment" -> lexDoubleSlashComment(l)
    [] l.state = "lexQuote" -> lexQuote(l)
    [] l.state = "lexRawQuote" -> lexRawQuote(l)
    [] l.state = "lexSubstitution" -> lexSubstitution(l)
    [] l.state = "lexPlusEquals" -> lexPlusEquals(l)
    [] l.state = "lexNumber" -> lexNumber(l)
    [] l.state = "lexUnquotedText" -> lexUnquotedText(l)

lexerDone(l) ==
  l.state = "nil" \/ (l.items # << >> /\ l.items[Len(l.items)].typ = "itemEOF")

\* lexer.run up to the first end-of-file or error item.  After an error item
\* the state is nil and run returns; after end-of-file the state stays
\* lexNextToken, which emits end-of-file again each time it is entered.
RECURSIVE run(_)
run(l) == IF lexerDone(l) THEN l ELSE run(stateStep(l))

lex(input) == run(newLexer(input))

(***************************************************************************)
(* The substitution scanners as the scanner source has them: they look the *)
(* name up in the environment env while scanning.                          *)
(***************************************************************************)
reset(l) == [l EXCEPT !.pos = l.start]

\* strings.ContainsAny(envVal, ":")
containsColon(envVal) == \E i \in 1..Len(envVal) : envVal[i] = ":"

\* the input with the pending text l.input[l.start:l.pos] replaced by txt
replacePending(l, txt) ==
  reset([l EXCEPT !.input = Slice(l.input, 0, l.start) \o txt
                              \o Slice(l.input, l.pos, Len(l.input))])

setEnvValue(l, envName, setNil, env) ==
  IF envName \in DOMAIN env
  THEN replacePending(l, IF containsColon(env[envName])
                         THEN << DQ >> \o env[envName] \o << DQ >>
                         ELSE env[envName])
  ELSE IF setNil THEN replacePending(l, <<"n", "i", "l">>)
  ELSE emit(l, "itemSubstitution")

RECURSIVE lexIgnoreIfEmptySubstitutionEnv(_, _)
lexIgnoreIfEmptySubstitutionEnv(l, env) ==
  IF isAlphaNumeric(nextRune(l)) \/ nextRune(l) \in {".", "_", "-"}
  THEN lexIgnoreIfEmptySubstitutionEnv(next(l), env)
  ELSE IF nextRune(l) = "}"
  THEN to(setEnvValue(next(l), Slice(l.input, l.start + 3, l.pos), FALSE, env), "lexNextToken")
  ELSE errorf(next(l), SubstErr)

RECURSIVE lexNormalSubstitutionEnv(_, _)
lexNormalSubstitutionEnv(l, env) ==
  IF isAlphaNumeric(nextRune(l)) \/ nextRune(l) \in {".", "_", "-"}
  THEN lexNormalSubstitutionEnv(next(l), env)
  ELSE IF nextRune(l) = "}"
  THEN to(setEnvValue(next(l), Slice(l.input, l.start + 2, l.pos), TRUE, env), "lexNextToken")
  ELSE errorf(next(l), SubstErr)

lexSubstitutionEnv(l, env) ==
  IF nextRune(l) = "{"
  THEN IF nextRune(next(l)) = "?"
       THEN lexIgnoreIfEmptySubstitutionEnv(next(peek(next(l))), env)
       ELSE lexNormalSubstitutionEnv(peek(next(l)), env)
  ELSE to(next(l), "lexNextToken")

\* one pass of the loop in lexer.run with these substitution scanners
stateStepEnv(l, env) ==
  IF l.state = "lexSubstitution" THEN lexSubstitutionEnv(l, env) ELSE stateStep(l)

RECURSIVE runEnv(_, _)
runEnv(l, env) == IF lexerDone(l) THEN l ELSE runEnv(stateStepEnv(l, env), env)

lexEnv(input, env) == runEnv(newLexer(input), env)

(***************************************************************************)
(* Nodes.  Byte positions are kept on items only; no operation on a node   *)
(* other than error text depends on its position.                          *)
(***************************************************************************)
NoNode == [t |-> "None"]

newMap == [t |-> "Map", nodes |-> << >>]

newList == [t |-> "List", nodes |-> << >>]

newNil == [t |-> "Nil"]

newBool(b) == [t |-> "Bool", b |-> b]

newString(orig, text) == [t |-> "String", quoted |-> orig, text |-> text]

\* strings.Index(s, "."), 0-based, -1 when absent
RECURSIVE indexDot(_, _)
indexDot(s, i) ==
  IF i > Len(s) THEN -1
  ELSE IF s[i] = "." THEN i - 1
  ELSE indexDot(s, i + 1)

\* strings.Split(s, "."): always at least one segment
RECURSIVE Split(_)
Split(s) ==
  LET i == indexDot(s, 1)
  IN  IF i = -1 THEN << s >>
      ELSE << Slice(s, 0, i) >> \o Split(Slice(s, i + 1, Len(s)))

\* strings.Join(segments, ".")
RECURSIVE Join(_)
Join(ss) ==
  IF Len(ss) = 0 THEN << >>
  ELSE IF Len(ss) = 1 THEN ss[1]
  ELSE ss[1] \o << "." >> \o Join(Tail(ss))

newField(ident, hard) ==
  [t |-> "Field", ident |-> Split(ident), hard |-> hard, fallback |-> NoNode]

\* FieldNode.String: the dotted path, as config.go passes it to GetValue
FieldString(f) == Join(f.ident)

put(m, key, n) ==
  [m EXCEPT !.nodes = [k \in DOMAIN m.nodes \cup {key} |->
                         IF k = key THEN n ELSE m.nodes[k]]]

append(l, n) == [l EXCEPT !.nodes = Append(l.nodes, n)]

\* FieldNode.withFallback: the field keeps the value it replaces
FieldWithFallback(m, other) == [m EXCEPT !.fallback = other]

\* a ListNode.withFallback that merges element by element: the elements of
\* the replaced list beyond the length of the new one survive
ListMergeElementwise(m, other) ==
  IF other.t = "List" /\ Len(other.nodes) > Len(m.nodes)
  THEN [m EXCEPT !.nodes = m.nodes \o SubSeq(other.nodes, Len(m.nodes) + 1, Len(other.nodes))]
  ELSE m

\* ListNode.withFallback (and every other non-Map, non-Field node)
ListWithFallback(m, other) == m

RECURSIVE withFallback(_, _)

\* a MapNode.withFallback that forgets the keys only the replaced map has
MapKeepOwnKeys(m, other) ==
  IF other.t = "Map"
  THEN [m EXCEPT !.nodes =
          [k \in DOMAIN m.nodes |->
             IF k \in DOMAIN other.nodes
             THEN withFallback(m.nodes[k], other.nodes[k])
             ELSE m.nodes[k]]]
  ELSE m

\* MapNode.withFallback
MapWithFallback(m, other) ==
  IF other.t = "Map"
  THEN [m EXCEPT !.nodes =
          [k \in DOMAIN m.nodes \cup DOMAIN other.nodes |->
             IF k \notin DOMAIN m.nodes THEN other.nodes[k]
             ELSE IF k \in DOMAIN other.nodes
                  THEN withFallback(m.nodes[k], other.nodes[k])
                  ELSE m.nodes[k]]]
  ELSE m

withFallback(m, other) ==
  CASE m.t = "Map" -> MapWithFallback(m, other)
    [] m.t = "Field" -> FieldWithFallback(m, other)
    [] m.t = "List" -> ListWithFallback(m, other)
    [] OTHER -> m

\* regexp ^"(.*)"$ : the dot does not match a newline
unquoteString(value) ==
  IF Len(value) >= 2 /\ value[1] = DQ /\ value[Len(value)] = DQ
     /\ \A i \in 2..(Len(value) - 1) : value[i] # NL
  THEN Slice(value, 1, Len(value) - 1)
  ELSE value

(***************************************************************************)
(* Number construction.  Texts are short enough that no 64-bit conversion  *)
(* overflows; only the syntax decides whether a conversion succeeds.       *)
(***************************************************************************)
allIn(s, set) == \A i \in 1..Len(s) : s[i] \in set

OctDigits == {"0", "1", "2", "3", "4", "5", "6", "7"}

\* strconv.ParseUint(text, 0, 64) succeeds
parseUintOK(text) ==
  CASE Len(text) = 0 -> FALSE
    [] Len(text) >= 2 /\ text[1] = "0" /\ text[2] \in {"x", "X"} ->
         Len(text) > 2 /\ allIn(Slice(text, 2, Len(text)), HexDigits)
    [] Len(text) >= 2 /\ text[1] = "0" -> allIn(Tail(text), OctDigits)
    [] OTHER -> allIn(text, Digits)

\* strconv.ParseInt(text, 0, 64) succeeds
parseIntOK(text) ==
  IF Len(text) > 0 /\ text[1] \in {"+", "-"}
  THEN parseUintOK(Tail(text))
  ELSE parseUintOK(text)

\* length of the longest prefix of s made of runes in set
RECURSIVE spanLen(_, _)
spanLen(s, set) ==
  IF Len(s) > 0 /\ s[1] \in set THEN 1 + spanLen(Tail(s), set) ELSE 0

\* strconv.ParseFloat(text, 64) succeeds on a decimal literal
parseFloatOK(text) ==
  LET body == IF Len(text) > 0 /\ text[1] \in {"+", "-"} THEN Tail(text) ELSE text
      nInt == spanLen(body, Digits)
      r1 == Slice(body, nInt, Len(body))
      hasDot == Len(r1) > 0 /\ r1[1] = "."
      r2 == IF hasDot THEN Tail(r1) ELSE r1
      nFrac == IF hasDot THEN spanLen(r2, Digits) ELSE 0
      r3 == Slice(r2, nFrac, Len(r2))
      hasExp == Len(r3) > 0 /\ r3[1] \in {"e", "E"}
      r4 == IF hasExp THEN Tail(r3) ELSE r3
      r5 == IF hasExp /\ Len(r4) > 0 /\ r4[1] \in {"+", "-"} THEN Tail(r4) ELSE r4
  IN  /\ nInt + nFrac > 0
      /\ IF hasExp THEN Len(r5) > 0 /\ allIn(r5, Digits) ELSE Len(r3) = 0

\* the value of one digit rune
digitVal(c) ==
  CASE c = "0" -> 0 [] c = "1" -> 1 [] c = "2" -> 2 [] c = "3" -> 3 [] c = "4" -> 4
    [] c = "5" -> 5 [] c = "6" -> 6 [] c = "7" -> 7 [] c = "8" -> 8 [] c = "9" -> 9
    [] c \in {"a", "A"} -> 10 [] c \in {"b", "B"} -> 11 [] c \in {"c", "C"} -> 12
    [] c \in {"d", "D"} -> 13 [] c \in {"e", "E"} -> 14 [] c \in {"f", "F"} -> 15
    [] OTHER -> 0

\* the value of a run of digits in the given base, after the digits in acc
RECURSIVE digitsVal(_, _, _)
digitsVal(s, base, acc) ==
  IF Len(s) = 0 THEN acc ELSE digitsVal(Tail(s), base, acc * base + digitVal(s[1]))

\* the value strconv.ParseUint(text, 0, 64) returns when it succeeds
parseUintVal(text) ==
  CASE Len(text) >= 2 /\ text[1] = "0" /\ text[2] \in {"x", "X"} ->
         digitsVal(Slice(text, 2, Len(text)), 16, 0)
    [] Len(text) >= 2 /\ text[1] = "0" -> digitsVal(Tail(text), 8, 0)
    [] OTHER -> digitsVal(text, 10, 0)

\* the value strconv.ParseInt(text, 0, 64) returns when it succeeds
parseIntVal(text) ==
  IF Len(text) > 0 /\ text[1] = "-" THEN 0 - parseUintVal(Tail(text))
  ELSE IF Len(text) > 0 /\ text[1] = "+" THEN parseUintVal(Tail(text))
  ELSE parseUintVal(text)

\* A float64 is held as m * 10^e with m not a multiple of ten (0 is m = 0,
\* e = 0): exact for the short decimal literals of the inputs.
RECURSIVE normFloat(_, _)
normFloat(m, e) ==
  IF m = 0 THEN [m |-> 0, e |-> 0]
  ELSE IF m % 10 = 0 THEN normFloat(m \div 10, e + 1)
  ELSE [m |-> m, e |-> e]

RECURSIVE Pow10(_)
Pow10(n) == IF n <= 0 THEN 1 ELSE 10 * Pow10(n - 1)

floatZero == [m |-> 0, e |-> 0]

complexZero == [re |-> floatZero, im |-> floatZero]

\* float64(i) of an integer
floatOfInt(i) == normFloat(i, 0)

\* float64(int64(f)) == f
floatIsInt(f) == f.e >= 0

\* int64(f) of an integral float
intOfFloat(f) == f.m * Pow10(f.e)

\* the value strconv.ParseFloat(text, 64) returns when it succeeds
parseFloatVal(text) ==
  LET neg == Len(text) > 0 /\ text[1] = "-"
      body == IF Len(text) > 0 /\ text[1] \in {"+", "-"} THEN Tail(text) ELSE text
      nInt == spanLen(body, Digits)
      r1 == Slice(body, nInt, Len(body))
      hasDot == Len(r1) > 0 /\ r1[1] = "."
      r2 == IF hasDot THEN Tail(r1) ELSE r1
      nFrac == IF hasDot THEN spanLen(r2, Digits) ELSE 0
      r3 == Slice(r2, nFrac, Len(r2))
      hasExp == Len(r3) > 0 /\ r3[1] \in {"e", "E"}
      r4 == IF hasExp THEN Tail(r3) ELSE r3
      negExp == hasExp /\ Len(r4) > 0 /\ r4[1] = "-"
      r5 == IF hasExp /\ Len(r4) > 0 /\ r4[1] \in {"+", "-"} THEN Tail(r4) ELSE r4
      mant == digitsVal(Slice(r2, 0, nFrac), 10, digitsVal(Slice(body, 0, nInt), 10, 0))
      exp == IF hasExp THEN digitsVal(r5, 10, 0) ELSE 0
  IN  normFloat(IF neg THEN 0 - mant ELSE mant,
                (IF negExp THEN 0 - exp ELSE exp) - nFrac)

\* a NumberNode with no flag set (node.go:308)
bareNumber(text) ==
  [t |-> "Number", text |-> text,
   isInt |-> FALSE, isUint |-> FALSE, isFloat |-> FALSE, isComplex |-> FALSE,
   int64 |-> 0, uint64 |-> 0, float64 |-> floatZero, complex128 |-> complexZero]

\* simplifyComplex without the test of the imaginary part
simplifyComplexAnyImag(n) ==
  LET f == n.complex128.re
  IN  [n EXCEPT !.isFloat = TRUE, !.float64 = f,
                !.isInt = floatIsInt(f),
                !.int64 = IF floatIsInt(f) THEN intOfFloat(f) ELSE n.int64,
                !.isUint = floatIsInt(f) /\ f.m >= 0,
                !.uint64 = IF floatIsInt(f) /\ f.m >= 0 THEN intOfFloat(f) ELSE n.uint64]

\* NumberNode.simplifyComplex: the other types need a zero imaginary part
simplifyComplex(n) ==
  IF n.complex128.im # floatZero THEN [n EXCEPT !.isFloat = FALSE]
  ELSE LET f == n.complex128.re
       IN  [n EXCEPT !.isFloat = TRUE, !.float64 = f,
                     !.isInt = floatIsInt(f),
                     !.int64 = IF floatIsInt(f) THEN intOfFloat(f) ELSE n.int64,
                     !.isUint = floatIsInt(f) /\ f.m >= 0,
                     !.uint64 = IF floatIsInt(f) /\ f.m >= 0 THEN intOfFloat(f) ELSE n.uint64]

\* node.go:320-328: an imaginary constant
imagNumber(text) ==
  simplifyComplex([bareNumber(text) EXCEPT
                     !.isComplex = TRUE,
                     !.complex128 = [re |-> floatZero,
                                     im |-> parseFloatVal(Slice(text, 0, Len(text) - 1))]])

\* node.go:352-365: neither integer conversion succeeded
floatNumber(n, f) ==
  [n EXCEPT !.isFloat = TRUE, !.float64 = f,
            !.isInt = floatIsInt(f),
            !.int64 = IF floatIsInt(f) THEN intOfFloat(f) ELSE 0,
            !.isUint = floatIsInt(f) /\ f.m >= 0,
            !.uint64 = IF floatIsInt(f) /\ f.m >= 0 THEN intOfFloat(f) ELSE 0]

\* node.go:330-350: the integer conversions and the promotion to float
intNumber(text, uok, iok) ==
  LET u == IF uok THEN parseUintVal(text) ELSE 0
      i == IF iok THEN parseIntVal(text) ELSE 0
  IN  [bareNumber(text) EXCEPT
         !.isUint = uok \/ (iok /\ i = 0), !.uint64 = u,
         !.isInt = iok, !.int64 = i,
         !.isFloat = TRUE, !.float64 = floatOfInt(IF iok THEN i ELSE u)]

\* Tree.newNumber for an itemNumber text: the node, or an error
newNumber(text) ==
  IF Len(text) > 0 /\ text[Len(text)] = "i" /\ parseFloatOK(Slice(text, 0, Len(text) - 1))
  THEN [ok |-> TRUE, node |-> imagNumber(text)]
  ELSE IF parseUintOK(text) \/ parseIntOK(text)
  THEN [ok |-> TRUE, node |-> intNumber(text, parseUintOK(text), parseIntOK(text))]
  ELSE IF parseFloatOK(text)
  THEN [ok |-> TRUE, node |-> floatNumber(bareNumber(text), parseFloatVal(text))]
  ELSE [ok |-> FALSE, node |-> bareNumber(text)]

(***************************************************************************)
(* Parser.  A parser value p holds the Tree's parsing state:               *)
(*   toks      the items the scanner produces up to its first end-of-file  *)
(*             or error item                                               *)
(*   n         how many items nextItem has received from the channel       *)
(*   token     the three-item lookahead buffer (token[1] is Go's token[0]) *)
(*   peekCount the pushback count                                          *)
(*   status    "run"; "error" after errorf or panic(e); "blocked" when     *)
(*             nextItem waits on a channel the scanner no longer feeds     *)
(*   tok, val  the item / node returned by the last call                   *)
(*   hist      the history of the buffer, which the Go code does not keep: *)
(*             what a pushback stream without a size limit would hold      *)
(* A call on a parser that is not running returns it unchanged: the panic  *)
(* has unwound the stack, or the goroutine never returns from the receive. *)
(***************************************************************************)
noItem == item("none", 0, << >>)

\* The history of the token buffer:
\*   out      the items next has delivered and no backup has taken back,
\*            newest first
\*   pushed   the items pushed back and not delivered again, next one first
\*   faithful every item handed out of the buffer was the first of pushed,
\*            every backup had a delivered item to take back, and peekCount
\*            was the length of pushed
\*   peekMax  the largest peekCount so far
noHistory == [out |-> << >>, pushed |-> << >>, faithful |-> TRUE, peekMax |-> 0]

\* next or peek hands out the buffered item d
handedOut(h, d, taken) ==
  [h EXCEPT !.faithful = h.faithful /\ h.pushed # << >> /\ Head(h.pushed) = d,
            !.pushed = IF taken /\ h.pushed # << >> THEN Tail(h.pushed) ELSE h.pushed,
            !.out = IF taken THEN << d >> \o h.out ELSE h.out]

\* next or peek receives the item d from the scanner
fromScanner(h, d, taken) ==
  [h EXCEPT !.faithful = h.faithful /\ h.pushed = << >>,
            !.pushed = IF taken THEN h.pushed ELSE << d >> \o h.pushed,
            !.out = IF taken THEN << d >> \o h.out ELSE h.out,
            !.peekMax = IF ~taken /\ h.peekMax < 1 THEN 1 ELSE h.peekMax]

\* backup, backup2: the items ts go in front of the last delivered item,
\* which is pushed back; peekCount is the new pushback count
pushedBack(h, ts, peekCount) ==
  [h EXCEPT !.faithful = h.faithful /\ h.out # << >> /\ peekCount = Len(ts) + 1 + Len(h.pushed),
            !.pushed = ts \o (IF h.out # << >> THEN << Head(h.out) >> ELSE << >>) \o h.pushed,
            !.out = IF h.out # << >> THEN Tail(h.out) ELSE h.out,
            !.peekMax = IF peekCount > h.peekMax THEN peekCount ELSE h.peekMax]

newParser(toks) ==
  [toks |-> toks, n |-> 0, token |-> << noItem, noItem, noItem >>, peekCount |-> 0,
   status |-> "run", err |-> "", tok |-> noItem, val |-> NoNode, hist |-> noHistory]

running(p) == p.status = "run"

\* lexer.nextItem: receive the next item.  After an end-of-file item the
\* scanner emits end-of-file again; after an error item it has returned
\* and the receive never completes.
nextItem(p) ==
  IF p.n < Len(p.toks)
  THEN [p EXCEPT !.n = p.n + 1, !.tok = p.toks[p.n + 1]]
  ELSE IF p.toks[Len(p.toks)].typ = "itemEOF"
       THEN [p EXCEPT !.n = p.n + 1, !.tok = p.toks[Len(p.toks)]]
       ELSE [p EXCEPT !.status = "blocked"]

tnext(p) ==
  IF ~running(p) THEN p
  ELSE IF p.peekCount > 0
       THEN [p EXCEPT !.peekCount = p.peekCount - 1, !.tok = p.token[p.peekCount],
                      !.hist = handedOut(p.hist, p.token[p.peekCount], TRUE)]
       ELSE LET q == nextItem(p)
            IN  IF running(q)
                THEN [q EXCEPT !.token[1] = q.tok, !.hist = fromScanner(q.hist, q.tok, TRUE)]
                ELSE q

tbackup(p) ==
  IF ~running(p) THEN p
  ELSE [p EXCEPT !.peekCount = p.peekCount + 1,
                 !.hist = pushedBack(p.hist, << >>, p.peekCount + 1)]

\* a backup2 that sets the count and leaves the older slot as it was
backup2NoStore(p, t1) ==
  IF ~running(p) THEN p
  ELSE [p EXCEPT !.peekCount = 2, !.hist = pushedBack(p.hist, << t1 >>, 2)]

backup2(p, t1) ==
  IF ~running(p) THEN p
  ELSE [p EXCEPT !.token[2] = t1, !.peekCount = 2,
                 !.hist = pushedBack(p.hist, << t1 >>, 2)]

tpeek(p) ==
  IF ~running(p) THEN p
  ELSE IF p.peekCount > 0
       THEN [p EXCEPT !.tok = p.token[p.peekCount],
                      !.hist = handedOut(p.hist, p.token[p.peekCount], FALSE)]
       ELSE LET q == nextItem(p)
            IN  IF running(q)
                THEN [q EXCEPT !.peekCount = 1, !.token[1] = q.tok,
                               !.hist = fromScanner(q.hist, q.tok, FALSE)]
                ELSE q

RECURSIVE nextNonSpaceIgnoreNewline(_)
nextNonSpaceIgnoreNewline(p) ==
  LET q == tnext(p)
  IN  IF running(q) /\ q.tok.typ \in {"itemSpace", "itemNewLine"}
      THEN nextNonSpaceIgnoreNewline(q)
      ELSE q

RECURSIVE nextNonSpace(_)
nextNonSpace(p) ==
  LET q == tnext(p)
  IN  IF running(q) /\ q.tok.typ = "itemSpace" THEN nextNonSpace(q) ELSE q

\* the loop condition (typ != itemSpace || typ != itemNewLine) holds for
\* every item, so the loop body runs once
peekNonSpace(p) ==
  LET q == tnext(p)
  IN  IF running(q) THEN [tbackup(q) EXCEPT !.tok = q.tok] ELSE q

\* Tree.errorf and the panics of parseValue: Root stays nil, Parse returns the error
terrorf(p, msg) == IF ~running(p) THEN p ELSE [p EXCEPT !.status = "error", !.err = msg]

unexpected(p, context) == terrorf(p, "unexpected")

expected(p, context) == terrorf(p, "expected")

isValue(token) == token.typ \in {"itemBool", "itemNull", "itemNumber", "itemString"}

isKeyValueSeparatorToken(token) ==
  token.typ \in {"itemColon", "itemEquals", "itemPlusEquals"}

RECURSIVE joinVals(_)
joinVals(tokens) ==
  IF Len(tokens) = 1 THEN tokens[1].val
  ELSE tokens[1].val \o << " " >> \o joinVals(Tail(tokens))

consolidate(tokens) ==
  IF Len(tokens) = 1 THEN tokens[1]
  ELSE item("itemString", tokens[1].pos, joinVals(tokens))

\* the loop of consolidateValueTokens; p.tok is the item under test
RECURSIVE consolidateLoop(_, _)
consolidateLoop(p, tokens) ==
  IF ~running(p) THEN p
  ELSE IF isValue(p.tok) \/ p.tok.typ = "itemUnquotedText"
       THEN consolidateLoop(nextNonSpace(p), Append(tokens, p.tok))
       ELSE IF tokens = << >> THEN tbackup(p)
            ELSE backup2(p, consolidate(tokens))

consolidateValueTokens(p) == consolidateLoop(nextNonSpaceIgnoreNewline(p), << >>)

\* checkElementSeparator; the answer is left in val as a Bool node
RECURSIVE checkSepLoop(_, _)
checkSepLoop(p, saw) ==
  IF ~running(p) THEN p
  ELSE CASE p.tok.typ = "itemNewLine" -> checkSepLoop(tnext(p), TRUE)
         [] p.tok.typ = "itemComma" -> [p EXCEPT !.val = newBool(TRUE)]
         [] OTHER -> [tbackup(p) EXCEPT !.val = newBool(saw)]

checkElementSeparator(p) == checkSepLoop(tnext(p), FALSE)

\* a createValueUnderPath whose loop runs over the segments first to last,
\* so that the first segment ends up innermost
createValueInnermostFirst(remaining, newValue) ==
  LET ps == Split(remaining)
      build[i \in 0..Len(ps)] ==
        IF i = 0 THEN newValue
        ELSE put(newMap, ps[i], build[i - 1])
  IN  build[Len(ps)]

createValueUnderPath(remaining, newValue) ==
  LET ps == Split(remaining)
      build[i \in 0..Len(ps)] ==
        IF i = 0 THEN newValue
        ELSE put(newMap, ps[Len(ps) - i + 1], build[i - 1])
  IN  build[Len(ps)]

\* lines 348-374 of parseObject: store newValue under the key path p
insertEntry(result, path, newValue) ==
  LET sepIndex == indexDot(path, 1)
      key == IF sepIndex = -1 THEN path ELSE Slice(path, 0, sepIndex)
      remaining == IF sepIndex = -1 THEN << >> ELSE Slice(path, sepIndex + 1, Len(path))
  IN  IF sepIndex = -1
      THEN IF key \in DOMAIN result.nodes
           THEN put(result, key, withFallback(newValue, result.nodes[key]))
           ELSE put(result, key, newValue)
      ELSE LET obj == createValueUnderPath(remaining, newValue)
           IN  IF key \in DOMAIN result.nodes
               THEN put(result, key, withFallback(obj, result.nodes[key]))
               ELSE put(result, key, obj)

\* strconv.ParseBool with the on/off extension of parseValue
parseBoolText(val) ==
  CASE val \in {<<"1">>, <<"t">>, <<"T">>, <<"T", "R", "U", "E">>,
                <<"t", "r", "u", "e">>, <<"T", "r", "u", "e">>, <<"o", "n">>} ->
         [ok |-> TRUE, b |-> TRUE]
    [] val \in {<<"0">>, <<"f">>, <<"F">>, <<"F", "A", "L", "S", "E">>,
                <<"f", "a", "l", "s", "e">>, <<"F", "a", "l", "s", "e">>,
                <<"o", "f", "f">>} ->
         [ok |-> TRUE, b |-> FALSE]
    [] OTHER -> [ok |-> FALSE, b |-> FALSE]

RECURSIVE parseValue(_, _)
RECURSIVE parseObjectLoop(_, _, _)
RECURSIVE parseArrayLoop(_, _)

parseKey(token) == token.val

parseObject(p, hadOpenCurly) == parseObjectLoop(peekNonSpace(p), hadOpenCurly, newMap)

\* result.append(v) after v := t.parseValue(token), then on to the loop
parseArrayElem(p, result) ==
  IF running(p) THEN parseArrayLoop(p, append(result, p.val)) ELSE p

\* the switch on the first token of parseArray
parseArrayFirst(p) ==
  IF ~running(p) THEN p
  ELSE CASE p.tok.typ = "itemCloseSquare" -> [p EXCEPT !.val = newList]
         [] isValue(p.tok) \/ p.tok.typ \in {"itemOpenCurly", "itemOpenSquare",
              "itemSoftSubstitution", "itemHardSubstitution"} ->
              parseArrayElem(parseValue(p, p.tok), newList)
         [] OTHER -> unexpected(p, "ListNode")

parseArray(p) == parseArrayFirst(nextNonSpaceIgnoreNewline(peekNonSpace(p)))

\* the element switch of the loop of parseArray; p.tok is the token
parseArrayToken(p, result) ==
  IF ~running(p) THEN p
  ELSE IF isValue(p.tok) \/ p.tok.typ \in {"itemOpenCurly", "itemOpenSquare"}
       THEN parseArrayElem(parseValue(p, p.tok), result)
  ELSE IF p.tok.typ = "itemCloseSquare" THEN parseArrayLoop(tbackup(p), result)
  ELSE unexpected(p, "ListNode")

\* after nextToken := t.peek(): consolidate unless an object or array follows
parseArrayPeeked(p, result) ==
  parseArrayToken(
    nextNonSpaceIgnoreNewline(
      IF running(p) /\ p.tok.typ \notin {"itemOpenCurly", "itemOpenSquare"}
      THEN consolidateValueTokens(p)
      ELSE p),
    result)

\* no separator was found and the next token was taken: stop at a close square
parseArrayClose(p, result) ==
  IF ~running(p) THEN p
  ELSE IF p.tok.typ = "itemCloseSquare" THEN [p EXCEPT !.val = result]
  ELSE parseArrayPeeked(tpeek(p), result)

\* after checkElementSeparator, whose answer is in p.val
parseArraySep(p, result) ==
  IF ~running(p) THEN p
  ELSE IF p.val.b THEN parseArrayPeeked(tpeek(p), result)
  ELSE parseArrayClose(nextNonSpaceIgnoreNewline(p), result)

\* one pass of the loop of parseArray; the finished list is left in val
parseArrayLoop(p, result) == parseArraySep(checkElementSeparator(p), result)

parseValue(p, token) ==
  IF ~running(p) THEN p
  ELSE CASE token.typ = "itemHardSubstitution" ->
              [p EXCEPT !.val = newField(Slice(token.val, 2, Len(token.val) - 1), TRUE)]
         [] token.typ = "itemSoftSubstitution" ->
              [p EXCEPT !.val = newField(Slice(token.val, 3, Len(token.val) - 1), FALSE)]
         [] token.typ = "itemBool" ->
              LET r == parseBoolText(token.val)
              IN  IF r.ok THEN [p EXCEPT !.val = newBool(r.b)]
                  ELSE terrorf(p, "invalid syntax")
         [] token.typ = "itemNull" -> [p EXCEPT !.val = newNil]
         [] token.typ = "itemNumber" ->
              LET r == newNumber(token.val)
              IN  IF r.ok THEN [p EXCEPT !.val = r.node]
                  ELSE terrorf(p, "illegal number syntax")
         [] token.typ = "itemString" ->
              [p EXCEPT !.val = newString(token.val, unquoteString(token.val))]
         [] token.typ = "itemUnquotedText" ->
              [p EXCEPT !.val = newString(token.val, token.val)]
         [] token.typ = "itemOpenCurly" -> parseObject(p, TRUE)
         [] token.typ = "itemOpenSquare" -> parseArray(p)
         [] OTHER -> unexpected(p, "parse value")

\* no separator after an entry: p.tok is nextToken
parseObjectEnd(p, hadOpenCurly, result) ==
  IF ~running(p) THEN p
  ELSE IF p.tok.typ = "itemCloseCurly"
       THEN IF ~hadOpenCurly THEN unexpected(p, "unbalanced close brace")
            ELSE [p EXCEPT !.val = result]
  ELSE IF hadOpenCurly THEN expected(p, "}")
  ELSE IF p.tok.typ = "itemEOF" THEN parseObjectLoop(tbackup(p), hadOpenCurly, result)
  ELSE expected(p, "EOF")

\* after checkElementSeparator, whose answer is in p.val
parseObjectSep(p, hadOpenCurly, result) ==
  IF ~running(p) THEN p
  ELSE IF p.val.b THEN parseObjectLoop(p, hadOpenCurly, result)
  ELSE parseObjectEnd(nextNonSpaceIgnoreNewline(p), hadOpenCurly, result)

\* p.val is the value parsed for key: store it, then look for a separator
parseObjectStore(p, key, hadOpenCurly, result) ==
  parseObjectSep(checkElementSeparator(p), hadOpenCurly, insertEntry(result, key, p.val))

\* p.tok is afterKey: find the value token and parse the value
parseObjectValueToken(p) ==
  IF ~running(p) THEN p
  ELSE IF p.tok.typ = "itemOpenCurly" THEN p
  ELSE IF ~isKeyValueSeparatorToken(p.tok) THEN unexpected(p, "= object")
  ELSE nextNonSpaceIgnoreNewline(consolidateValueTokens(p))

parseObjectValue(p, key, hadOpenCurly, result) ==
  parseObjectStore(parseValue(p, p.tok), key, hadOpenCurly, result)

\* the switch of the loop of parseObject; p.tok is the token
parseObjectToken(p, hadOpenCurly, result) ==
  IF ~running(p) THEN p
  ELSE CASE p.tok.typ = "itemCloseCurly" ->
              IF ~hadOpenCurly THEN unexpected(p, "}")
              ELSE [p EXCEPT !.val = result]
         [] p.tok.typ = "itemEOF" /\ ~hadOpenCurly ->
              [tbackup(p) EXCEPT !.val = result]
         [] OTHER ->
              parseObjectValue(parseObjectValueToken(nextNonSpaceIgnoreNewline(p)),
                               parseKey(p.tok), hadOpenCurly, result)

\* one pass of the loop of parseObject; the finished map is left in val
parseObjectLoop(p, hadOpenCurly, result) ==
  parseObjectToken(nextNonSpaceIgnoreNewline(p), hadOpenCurly, result)

\* the end of Tree.parse: only end-of-file may follow the root value
parseEOF(p, root) ==
  IF ~running(p) THEN p
  ELSE IF p.tok.typ # "itemEOF" THEN unexpected(p, "EOF")
  ELSE [p EXCEPT !.val = root]

parseRootDone(p) == parseEOF(nextNonSpaceIgnoreNewline(p), p.val)

\* the root value of Tree.parse; p.tok is the first token
parseRoot(p) ==
  IF ~running(p) THEN p
  ELSE IF p.tok.typ \in {"itemOpenCurly", "itemOpenSquare"}
       THEN parseValue(p, p.tok)
       ELSE parseObject(tbackup(p), FALSE)

\* Tree.parse
parse(p) == parseRootDone(parseRoot(nextNonSpaceIgnoreNewline(p)))

\* what the caller of Parse gets back, from the parser p at its end
parseOutcome(p, items) ==
  [status |-> IF running(p) THEN "ok" ELSE p.status,
   root |-> IF running(p) THEN p.val ELSE NoNode,
   returned |-> p.status # "blocked",
   err |-> p.err,
   items |-> items,
   received |-> p.n,
   faithful |-> p.hist.faithful,
   peekMax |-> p.hist.peekMax]

parseItems(items) == parseOutcome(parse(newParser(items)), items)

\* Tree.Parse with Tree.recover: what the caller gets back.
\*   status "ok"      Parse returned (t, nil); root is t.Root
\*   status "error"   Parse returned (nil, err); t.Root is nil
\*   status "blocked" Parse has not returned: the parser waits for an item
\* received counts the items taken from the scanner.
Parse(text) == parseItems(lex(text).items)

\* Tree.Parse fed by the scanner that reads the environment
ParseEnv(text, env) == parseItems(lexEnv(text, env).items)

(***************************************************************************)
(* Config                                                                  *)
(***************************************************************************)
\* Bound on the depth of nested GetValue calls.  A resolution that does not
\* revisit a path nests at most once per Field node of the tree, so a call
\* chain this deep repeats a path and the Go recursion never returns (the
\* goroutine stack grows until the runtime aborts).
MaxDepth == 8

okRes(n) == [status |-> "ok", node |-> n, err |-> ""]

errRes(msg) == [status |-> "err", node |-> NoNode, err |-> msg]

overflowRes == [status |-> "overflow", node |-> NoNode, err |-> ""]

\* os.LookupEnv result as the node built at config.go:45
envNode(envV) == [t |-> "String", quoted |-> envV, text |-> unquoteString(envV)]

RECURSIVE GetValueD(_, _, _, _)
RECURSIVE resolveField(_, _, _, _)

\* a resolution that gives Nil for every unresolved Field, soft ones too
resolveFieldAllHard(root, n, env, d) ==
  IF n.t # "Field" THEN okRes(n)
  ELSE LET name == FieldString(n)
           cfg == GetValueD(root, name, env, d - 1)
       IN  IF cfg.status = "overflow" THEN overflowRes
           ELSE IF cfg.status = "ok" THEN resolveField(root, cfg.node, env, d)
           ELSE IF name \in DOMAIN env THEN okRes(envNode(env[name]))
           ELSE okRes(newNil)

\* a resolution that tests Fallback before Hard
resolveFieldFallbackFirst(root, n, env, d) ==
  IF n.t # "Field" THEN okRes(n)
  ELSE LET name == FieldString(n)
           cfg == GetValueD(root, name, env, d - 1)
       IN  IF cfg.status = "overflow" THEN overflowRes
           ELSE IF cfg.status = "ok" THEN resolveField(root, cfg.node, env, d)
           ELSE IF name \in DOMAIN env THEN okRes(envNode(env[name]))
           ELSE IF n.fallback # NoNode THEN resolveField(root, n.fallback, env, d)
           ELSE IF n.hard THEN okRes(newNil)
           ELSE errRes("invalid field node")

\* a resolution that never looks the path up in the tree
resolveFieldEnvOnly(root, n, env, d) ==
  IF n.t # "Field" THEN okRes(n)
  ELSE LET name == FieldString(n)
       IN  IF name \in DOMAIN env THEN okRes(envNode(env[name]))
           ELSE IF n.hard THEN okRes(newNil)
           ELSE IF n.fallback # NoNode THEN resolveField(root, n.fallback, env, d)
           ELSE errRes("invalid field node")

\* a resolution that asks the environment before the tree
resolveFieldEnvFirst(root, n, env, d) ==
  IF n.t # "Field" THEN okRes(n)
  ELSE LET name == FieldString(n)
           cfg == GetValueD(root, name, env, d - 1)
       IN  IF name \in DOMAIN env THEN okRes(envNode(env[name]))
           ELSE IF cfg.status = "overflow" THEN overflowRes
           ELSE IF cfg.status = "ok" THEN resolveField(root, cfg.node, env, d)
           ELSE IF n.hard THEN okRes(newNil)
           ELSE IF n.fallback # NoNode THEN resolveField(root, n.fallback, env, d)
           ELSE errRes("invalid field node")

\* a resolution that hands out the captured fallback as it is
resolveFieldRawFallback(root, n, env, d) ==
  IF n.t # "Field" THEN okRes(n)
  ELSE LET name == FieldString(n)
           cfg == GetValueD(root, name, env, d - 1)
       IN  IF cfg.status = "overflow" THEN overflowRes
           ELSE IF cfg.status = "ok" THEN resolveField(root, cfg.node, env, d)
           ELSE IF name \in DOMAIN env THEN okRes(envNode(env[name]))
           ELSE IF n.hard THEN okRes(newNil)
           ELSE IF n.fallback # NoNode THEN okRes(n.fallback)
           ELSE errRes("invalid field node")

\* the loop at config.go:35-57 (and 317-340): replace n while it is a Field
resolveField(root, n, env, d) ==
  IF n.t # "Field" THEN okRes(n)
  ELSE LET name == FieldString(n)
           cfg == GetValueD(root, name, env, d - 1)
       IN  IF cfg.status = "overflow" THEN overflowRes
           ELSE IF cfg.status = "ok" THEN resolveField(root, cfg.node, env, d)
           ELSE IF name \in DOMAIN env THEN okRes(envNode(env[name]))
           ELSE IF n.hard THEN okRes(newNil)
           ELSE IF n.fallback # NoNode THEN resolveField(root, n.fallback, env, d)
           ELSE errRes("invalid field node")

\* the loop over the path segments at config.go:24-60
RECURSIVE walk(_, _, _, _, _, _)
walk(root, v, ps, i, env, d) ==
  IF i > Len(ps) THEN okRes(v)
  ELSE IF v.t = "Map"
       THEN IF ps[i] \notin DOMAIN v.nodes THEN errRes("path not valid")
            ELSE LET r == resolveField(root, v.nodes[ps[i]], env, d)
                 IN  IF r.status = "ok" THEN walk(root, r.node, ps, i + 1, env, d) ELSE r
       ELSE walk(root, v, ps, i + 1, env, d)

\* Config.GetValue on the view whose node is root, with d stack frames left
GetValueD(root, path, env, d) ==
  IF d = 0 THEN overflowRes ELSE walk(root, root, Split(path), 1, env, d)

GetValue(root, path, env) == GetValueD(root, path, env, MaxDepth)

\* an element loop that puts each view in front of the earlier ones
RECURSIVE arrayLoop(_, _, _, _, _)
arrayLoopPrepend(root, nodes, i, env, vals) ==
  IF i > Len(nodes) THEN [status |-> "ok", err |-> "", vals |-> vals]
  ELSE LET r == resolveField(root, nodes[i], env, MaxDepth)
       IN  IF r.status = "ok" THEN arrayLoop(root, nodes, i + 1, env, << r.node >> \o vals)
           ELSE [status |-> r.status, err |-> r.err, vals |-> vals]

\* the element loop of Config.GetArray; vals keeps what was appended before an error
arrayLoop(root, nodes, i, env, vals) ==
  IF i > Len(nodes) THEN [status |-> "ok", err |-> "", vals |-> vals]
  ELSE LET r == resolveField(root, nodes[i], env, MaxDepth)
       IN  IF r.status = "ok" THEN arrayLoop(root, nodes, i + 1, env, Append(vals, r.node))
           ELSE [status |-> r.status, err |-> r.err, vals |-> vals]

GetArray(root, path, env) ==
  LET conf == GetValue(root, path, env)
  IN  IF conf.status # "ok" THEN [status |-> conf.status, err |-> conf.err, vals |-> << >>]
      ELSE IF conf.node.t = "List" THEN arrayLoop(root, conf.node.nodes, 1, env, << >>)
      ELSE [status |-> "err", err |-> "not valid list node", vals |-> << >>]

(***************************************************************************)
(* Typed getters.  A result is [status, err, val]: val is a string [s],    *)
(* a boolean [b], an integer [i], a float [m, e] or a complex [re, im],    *)
(* and the zero value of the type when the getter reports an error.        *)
(***************************************************************************)
strVal(s) == [s |-> s]

boolVal(b) == [b |-> b]

intVal(i) == [i |-> i]

typedOk(val) == [status |-> "ok", err |-> "", val |-> val]

typedErr(status, msg, zero) == [status |-> status, err |-> msg, val |-> zero]

\* strconv.ParseBool
strconvParseBool(text) ==
  CASE text \in {<<"1">>, <<"t">>, <<"T">>, <<"T", "R", "U", "E">>,
                 <<"t", "r", "u", "e">>, <<"T", "r", "u", "e">>} -> typedOk(boolVal(TRUE))
    [] text \in {<<"0">>, <<"f">>, <<"F">>, <<"F", "A", "L", "S", "E">>,
                 <<"f", "a", "l", "s", "e">>, <<"F", "a", "l", "s", "e">>} -> typedOk(boolVal(FALSE))
    [] OTHER -> typedErr("err", "invalid syntax", boolVal(FALSE))

\* strconv.ParseInt(text, 0, 64)
strconvParseInt(text) ==
  IF parseIntOK(text) THEN typedOk(intVal(parseIntVal(text)))
  ELSE typedErr("err", "invalid syntax", intVal(0))

\* strconv.ParseUint(text, 0, 64)
strconvParseUint(text) ==
  IF parseUintOK(text) THEN typedOk(intVal(parseUintVal(text)))
  ELSE typedErr("err", "invalid syntax", intVal(0))

\* strconv.ParseFloat(text, 64)
strconvParseFloat(text) ==
  IF parseFloatOK(text) THEN typedOk(parseFloatVal(text))
  ELSE typedErr("err", "invalid syntax", floatZero)

\* index (1-based) of the sign that separates the two parts of a complex
\* text, searched from position i; 0 when there is none
RECURSIVE complexSign(_, _)
complexSign(text, i) ==
  IF i > Len(text) THEN 0
  ELSE IF text[i] \in {"+", "-"} /\ text[i - 1] \notin {"e", "E"} THEN i
  ELSE complexSign(text, i + 1)

\* fmt.Sscan(text, &complex128): real part, a sign, imaginary part, "i",
\* optionally all in parentheses
sscanComplex(text) ==
  LET parens == Len(text) > 0 /\ text[1] = "("
      body == IF parens THEN Tail(text) ELSE text
      k == complexSign(body, 2)
      real == Slice(body, 0, k - 1)
      rest == Slice(body, k - 1, Len(body))
      nImag == spanLen(Tail(rest), Digits \cup {".", "e", "E"})
      imag == Slice(rest, 0, nImag + 1)
      after == Slice(rest, nImag + 1, Len(rest))
  IN  IF /\ k > 0
         /\ parseFloatOK(real)
         /\ parseFloatOK(imag)
         /\ Len(after) > 0 /\ after[1] = "i"
         /\ parens => (Len(after) > 1 /\ after[2] = ")")
      THEN typedOk([re |-> parseFloatVal(real), im |-> parseFloatVal(imag)])
      ELSE typedErr("err", "not valid complex", complexZero)

\* stripSpaces: drop every space rune
stripSpaces(str) == SelectSeq(str, LAMBDA c : c \notin {" ", TAB, NL, CR})

\* A time.Duration is held as its count of nanoseconds in the form m * 10^e
\* of the floats.  The nanoseconds of a time.ParseDuration unit; zero for an
\* unknown unit
unitNanos(u) ==
  CASE u = <<"n", "s">> -> [m |-> 1, e |-> 0]
    [] u = <<"u", "s">> -> [m |-> 1, e |-> 3]
    [] u = <<"m", "s">> -> [m |-> 1, e |-> 6]
    [] u = <<"s">> -> [m |-> 1, e |-> 9]
    [] u = <<"m">> -> [m |-> 6, e |-> 10]
    [] u = <<"h">> -> [m |-> 36, e |-> 11]
    [] OTHER -> floatZero

\* the sum of two counts
addNanos(a, b) ==
  IF a.m = 0 THEN b
  ELSE IF b.m = 0 THEN a
  ELSE IF a.e <= b.e THEN normFloat(a.m + b.m * Pow10(b.e - a.e), a.e)
  ELSE normFloat(a.m * Pow10(a.e - b.e) + b.m, b.e)

\* the components of a duration text after its sign: whole numbers, each
\* followed by a unit.  Gives [ok, val].
RECURSIVE durationParts(_, _)
durationParts(s, acc) ==
  IF Len(s) = 0 THEN [ok |-> TRUE, val |-> acc]
  ELSE LET nNum == spanLen(s, Digits)
           rest == Slice(s, nNum, Len(s))
           nUnit == spanLen(rest, Letters)
           unit == unitNanos(Slice(rest, 0, nUnit))
       IN  IF nNum = 0 \/ unit = floatZero THEN [ok |-> FALSE, val |-> floatZero]
           ELSE durationParts(Slice(rest, nUnit, Len(rest)),
                              addNanos(acc, normFloat(digitsVal(Slice(s, 0, nNum), 10, 0) * unit.m,
                                                      unit.e)))

\* time.ParseDuration on texts without fractions
parseDuration(str) ==
  LET neg == Len(str) > 0 /\ str[1] = "-"
      body == IF Len(str) > 0 /\ str[1] \in {"+", "-"} THEN Tail(str) ELSE str
      r == durationParts(body, floatZero)
  IN  IF body = <<"0">> THEN typedOk(floatZero)
      ELSE IF Len(body) = 0 \/ ~r.ok THEN typedErr("err", "invalid duration", floatZero)
      ELSE typedOk(IF neg THEN [r.val EXCEPT !.m = 0 - r.val.m] ELSE r.val)

\* config.go:75-85: GetString after GetValue
stringOf(conf) ==
  IF conf.status # "ok" THEN typedErr(conf.status, conf.err, strVal(<< >>))
  ELSE IF conf.node.t = "String" THEN typedOk(strVal(conf.node.text))
  ELSE typedErr("err", "not valid string", strVal(<< >>))

GetString(root, path, env) == stringOf(GetValue(root, path, env))

\* config.go:110-120: GetDuration after GetString
durationOf(str) ==
  IF str.status # "ok" THEN typedErr(str.status, str.err, floatZero)
  ELSE IF Len(stripSpaces(str.val.s)) = 0 THEN typedOk(floatZero)
  ELSE parseDuration(stripSpaces(str.val.s))

GetDuration(root, path, env) == durationOf(GetString(root, path, env))

\* config.go:137-151: GetBool after GetValue
boolOf(conf) ==
  IF conf.status # "ok" THEN typedErr(conf.status, conf.err, boolVal(FALSE))
  ELSE IF conf.node.t = "Bool" THEN typedOk(boolVal(conf.node.b))
  ELSE IF conf.node.t = "String" THEN strconvParseBool(conf.node.text)
  ELSE typedErr("err", "not valid bool", boolVal(FALSE))

GetBool(root, path, env) == boolOf(GetValue(root, path, env))

\* config.go:168-187: GetInt after GetValue
intOf(conf) ==
  IF conf.status # "ok" THEN typedErr(conf.status, conf.err, intVal(0))
  ELSE IF conf.node.t = "Number"
       THEN IF conf.node.isInt THEN typedOk(intVal(conf.node.int64))
            ELSE typedErr("err", "not valid int64", intVal(0))
  ELSE IF conf.node.t = "String" THEN strconvParseInt(conf.node.text)
  ELSE typedErr("err", "not valid int64", intVal(0))

GetInt(root, path, env) == intOf(GetValue(root, path, env))

\* config.go:204-223: GetUInt after GetValue
uintOf(conf) ==
  IF conf.status # "ok" THEN typedErr(conf.status, conf.err, intVal(0))
  ELSE IF conf.node.t = "Number"
       THEN IF conf.node.isUint THEN typedOk(intVal(conf.node.uint64))
            ELSE typedErr("err", "not valid uint64", intVal(0))
  ELSE IF conf.node.t = "String" THEN strconvParseUint(conf.node.text)
  ELSE typedErr("err", "not valid uint64", intVal(0))

GetUInt(root, path, env) == uintOf(GetValue(root, path, env))

\* config.go:240-259: GetFloat after GetValue
floatOf(conf) ==
  IF conf.status # "ok" THEN typedErr(conf.status, conf.err, floatZero)
  ELSE IF conf.node.t = "Number"
       THEN IF conf.node.isFloat THEN typedOk(conf.node.float64)
            ELSE typedErr("err", "not valid float64", floatZero)
  ELSE IF conf.node.t = "String" THEN strconvParseFloat(conf.node.text)
  ELSE typedErr("err", "not valid float64", floatZero)

GetFloat(root, path, env) == floatOf(GetValue(root, path, env))

\* config.go:276-297: GetComplex after GetValue.  The String test
\* (config.go:284) stands inside the branch taken only when the node is a
\* Number whose type assertion failed, which no node satisfies: every node
\* that is not a Number ends at config.go:296.
complexOf(conf) ==
  IF conf.status # "ok" THEN typedErr(conf.status, conf.err, complexZero)
  ELSE IF conf.node.t = "Number"
       THEN IF conf.node.isComplex THEN typedOk(conf.node.complex128)
            ELSE typedErr("err", "not valid complex", complexZero)
  ELSE typedErr("err", "not valid complex", complexZero)

GetComplex(root, path, env) == complexOf(GetValue(root, path, env))

GetterKinds == {"String", "Duration", "Bool", "Int", "UInt", "Float", "Complex"}

\* the getter of one kind
GetTyped(kind, root, path, env) ==
  CASE kind = "String" -> GetString(root, path, env)
    [] kind = "Duration" -> GetDuration(root, path, env)
    [] kind = "Bool" -> GetBool(root, path, env)
    [] kind = "Int" -> GetInt(root, path, env)
    [] kind = "UInt" -> GetUInt(root, path, env)
    [] kind = "Float" -> GetFloat(root, path, env)
    [] OTHER -> GetComplex(root, path, env)

\* a default-valued sibling that gives the zero value, not d, on an error
defaultZeroOf(r, d) ==
  [status |-> IF r.status = "overflow" THEN "overflow" ELSE "ok", val |-> r.val]

\* config.go:90-94 and its like: the getter's value, or d on an error
defaultOf(r, d) ==
  [status |-> IF r.status = "overflow" THEN "overflow" ELSE "ok",
   val |-> IF r.status = "ok" THEN r.val ELSE d]

GetDefaultZero(kind, root, path, env, d) == defaultZeroOf(GetTyped(kind, root, path, env), d)

\* GetDefaultString ... GetDefaultComplex: no error result; the status only
\* tells a return from an exhausted stack
GetDefault(kind, root, path, env, d) == defaultOf(GetTyped(kind, root, path, env), d)

(***************************************************************************)
(* Key enumeration.  A result is [status, err, keys]: the keys as a set,   *)
(* because the loop ranges over a Go map, whose order is not defined.      *)
(***************************************************************************)
\* the part of GetKeySet after the node is found
keysOf(keySource) ==
  IF keySource.t # "Map" THEN [status |-> "err", err |-> "Node is not a map", keys |-> {}]
  ELSE [status |-> "ok", err |-> "", keys |-> DOMAIN keySource.nodes]

\* a key enumeration that hands the empty path to GetValue like any other
GetKeySetAlwaysWalk(root, path, env) ==
  LET node == GetValue(root, path, env)
  IN  IF node.status # "ok" THEN [status |-> node.status, err |-> node.err, keys |-> {}]
      ELSE keysOf(node.node)

GetKeySet(root, path, env) ==
  IF Len(path) > 0
  THEN LET node == GetValue(root, path, env)
       IN  IF node.status # "ok" THEN [status |-> node.status, err |-> node.err, keys |-> {}]
           ELSE keysOf(node.node)
  ELSE keysOf(root)

\* the slices that hold each key of the set once
KeyOrders(keys) ==
  {q \in [1..Cardinality(keys) -> keys] : \A i, j \in DOMAIN q : q[i] = q[j] => i = j}

(***************************************************************************)
(* Copy and String.  MapNode.String ranges over a Go map, whose order is   *)
(* not defined: Renderings(n) is the set of the texts String() can return. *)
(***************************************************************************)
\* Node.Copy; the copy of a Field holds the same path, flag and fallback
RECURSIVE Copy(_)
Copy(n) ==
  CASE n.t = "Map" -> [t |-> "Map", nodes |-> [k \in DOMAIN n.nodes |-> Copy(n.nodes[k])]]
    [] n.t = "List" -> [t |-> "List", nodes |-> [i \in 1..Len(n.nodes) |-> Copy(n.nodes[i])]]
    [] n.t = "Nil" -> newNil
    [] n.t = "Bool" -> newBool(n.b)
    [] n.t = "String" -> newString(n.quoted, n.text)
    [] n.t = "Field" ->
         [n EXCEPT !.fallback = IF n.fallback = NoNode THEN NoNode ELSE Copy(n.fallback)]
    [] OTHER -> n

\* the texts s \o t, s of S and t of T
Concat(S, T) == {s \o t : s \in S, t \in T}

RECURSIVE Renderings(_)
RECURSIVE renderEntries(_, _, _)
RECURSIVE renderElems(_, _)

\* the entries q[i], q[i + 1], ... of the Map m, each as key = (value)
renderEntries(m, q, i) ==
  IF i > Len(q) THEN {<< >>}
  ELSE Concat(Concat({q[i] \o <<" ", "=", " ", "(">>}, Renderings(m.nodes[q[i]])),
              Concat({<<")">>}, renderEntries(m, q, i + 1)))

\* the elements i, i + 1, ... of a List, one after the other
renderElems(nodes, i) ==
  IF i > Len(nodes) THEN {<< >>}
  ELSE Concat(Renderings(nodes[i]), renderElems(nodes, i + 1))

\* Node.String
Renderings(n) ==
  CASE n.t = "Map" -> UNION {renderEntries(n, q, 1) : q \in KeyOrders(DOMAIN n.nodes)}
    [] n.t = "List" -> renderElems(n.nodes, 1)
    [] n.t = "Nil" -> {<<"n", "i", "l">>}
    [] n.t = "Bool" -> {IF n.b THEN <<"t", "r", "u", "e">> ELSE <<"f", "a", "l", "s", "e">>}
    [] n.t = "Number" -> {n.text}
    [] n.t = "String" -> {n.quoted}
    [] n.t = "Field" -> {FieldString(n)}
    [] OTHER -> {<< >>}

(***************************************************************************)
(* Documents, environment and queries explored                             *)
(***************************************************************************)
\* entries a document is assembled from, one per line
Entries ==
  << <<"a", "=", "1">>,
     <<"a", "=", "[", "1", ",", "2", "]">>,
     <<"a", "=", "[", "3", "]">>,
     <<"a", "{", "x", "=", "1", "}">>,
     <<"a", "{", "y", "=", "2", "}">>,
     <<"a", ".", "x", "=", "2">>,
     <<"a", "=", "$", "{", "?", "b", "}">>,
     <<"a", "=", "$", "{", "b", "}">>,
     <<"b", "=", "5">>,
     <<"b", "=", "$", "{", "a", "}">>,
     <<"a", "{", "x", "=", "$", "{", "?", "b", "}", "}">>,
     <<"a", ".", "x", "=", "$", "{", "?", "b", "}">>,
     <<"r", "=", "[", "{", "x", "=", "$", "{", "b", "}", "}", "]">>,
     <<"a", "=", DQ, "q">>,
     <<DQ, "q">>,
     <<"a", "=", "}">>,
     <<"/", "*">>,
     <<"a", "=", "$", "{">>,
     <<"a", "=", "%">> >>

NEntries == Len(Entries)

\* number of entries in a document
MaxEntries == 2

Docs == UNION {[1..n -> 1..NEntries] : n \in 1..MaxEntries}

(***************************************************************************)
(* Entries in the three surface forms of a nested key                      *)
(***************************************************************************)
\* key paths, as their segments
FormPaths ==
  << << <<"a">>, <<"b">>, <<"c">> >>,
     << <<"a">>, <<"b">> >>,
     << <<"a">>, <<"x">> >> >>

\* value texts
FormValues ==
  << <<"1">>,
     <<"[", "1", ",", " ", "2", "]">>,
     <<"$", "{", "?", "y", "}">>,
     <<DQ, "s", DQ>> >>

FormKinds == << "dotted", "braces", "equals" >>

\* a.b.c = v
DottedText(ps, v) == Join(ps) \o << " ", "=", " " >> \o v

\* a { b { c = v } }
RECURSIVE BracesText(_, _, _)
BracesText(ps, v, i) ==
  IF i = Len(ps) THEN ps[i] \o << " ", "=", " " >> \o v
  ELSE ps[i] \o << " ", "{", " " >> \o BracesText(ps, v, i + 1) \o << " ", "}" >>

\* a = { b = { c = v } }
RECURSIVE EqualsText(_, _, _)
EqualsText(ps, v, i) ==
  IF i = Len(ps) THEN ps[i] \o << " ", "=", " " >> \o v
  ELSE ps[i] \o << " ", "=", " ", "{", " " >> \o EqualsText(ps, v, i + 1) \o << " ", "}" >>

FormText(ps, v, kind) ==
  CASE kind = "dotted" -> DottedText(ps, v)
    [] kind = "braces" -> BracesText(ps, v, 1)
    [] OTHER -> EqualsText(ps, v, 1)

\* entries a Map may hold under a before the nested key is defined
FormEarlier ==
  << <<"a", " ", "{", " ", "x", " ", "=", " ", "1", " ", "}">>,
     <<"a", ".", "b", ".", "d", " ", "=", " ", "2">>,
     <<"a", ".", "b", ".", "c", " ", "=", " ", "0">>,
     <<"a", " ", "=", " ", "5">>,
     <<"z", " ", "=", " ", "1">> >>

NForms == Len(FormPaths) * Len(FormValues) * Len(FormKinds)

\* the position among the form entries of path pi, value vi in form ki
FormIndex(pi, vi, ki) ==
  ((pi - 1) * Len(FormValues) + (vi - 1)) * Len(FormKinds) + ki

FormPathOf(i) == ((i - 1) \div (Len(FormValues) * Len(FormKinds))) + 1

FormValueOf(i) == (((i - 1) \div Len(FormKinds)) % Len(FormValues)) + 1

FormKindOf(i) == ((i - 1) % Len(FormKinds)) + 1

FormEntries ==
  [i \in 1..NForms |->
     FormText(FormPaths[FormPathOf(i)], FormValues[FormValueOf(i)], FormKinds[FormKindOf(i)])]

(***************************************************************************)
(* Entries with arrays                                                     *)
(***************************************************************************)
ArrayEntries ==
  << <<"r", " ", "=", " ", "[", "1", ",", " ", "t", "r", "u", "e", ",", " ", DQ, "s", DQ, "]">>,
     <<"r", " ", "=", " ", "[", "$", "{", "b", "}", ",", " ", "2", "]">>,
     <<"r", " ", "=", " ", "[", "$", "{", "?", "b", "}", "]">>,
     <<"r", " ", "=", " ", "[", "]">>,
     <<"r", " ", "=", " ", "5">>,
     <<"r", " ", "{", " ", "x", " ", "=", " ", "1", " ", "}">>,
     <<"b", " ", "=", " ", "5">> >>

(***************************************************************************)
(* Entries for the typed getters                                           *)
(***************************************************************************)
TypedEntries ==
  << <<"v", " ", "=", " ", "t", "r", "u", "e">>,
     <<"v", " ", "=", " ", DQ, "t", "r", "u", "e", DQ>>,
     <<"v", " ", "=", " ", "1", "2">>,
     <<"v", " ", "=", " ", DQ, "1", "2", DQ>>,
     <<"v", " ", "=", " ", "-", "3">>,
     <<"v", " ", "=", " ", DQ, "-", "3", DQ>>,
     <<"v", " ", "=", " ", "1", ".", "5">>,
     <<"v", " ", "=", " ", DQ, "1", ".", "5", DQ>>,
     <<"v", " ", "=", " ", "2", "i">>,
     <<"v", " ", "=", " ", DQ, "1", "+", "2", "i", DQ>>,
     <<"v", " ", "=", " ", "$", "{", "b", "}">>,
     <<"v", " ", "=", " ", "$", "{", "?", "b", "}">>,
     <<"v", " ", "=", " ", "[", "1", "]">>,
     <<"v", " ", "=", " ", DQ, "5", "s", DQ>>,
     <<"v", " ", "=", " ", "o", "n">>,
     <<"v", " ", "=", " ", "0">> >>

(***************************************************************************)
(* Entries for the key enumeration                                         *)
(***************************************************************************)
KeyEntries ==
  << <<"k", "{", "d", "{", "g", "=", "1", ",", "j", "=", "2", "}", ",", "m", "=", "[", "1", ",", "2", "]", ",", "p", "=", "3", "}">>,
     <<"k", "{", "d", "=", "1", ",", "e", "=", "2", ",", "f", "=", "3", "}">>,
     <<"k", "=", "$", "{", "o", "}">>,
     <<"o", "{", "x", "=", "1", ",", "y", "=", "2", "}">>,
     <<"k", "=", "[", "1", "]">>,
     <<"k", "=", "5">> >>

\* every entry text, by its number: documents are sequences of these numbers
AllEntries ==
  Entries \o FormEntries \o FormEarlier \o ArrayEntries \o TypedEntries \o KeyEntries

KeyNo(i) ==
  NEntries + NForms + Len(FormEarlier) + Len(ArrayEntries) + Len(TypedEntries) + i

\* one or two of the entries for the key enumeration
KeyDocs ==
  {<< KeyNo(i) >> : i \in 1..Len(KeyEntries)}
    \cup {<< KeyNo(i), KeyNo(j) >> : i, j \in 1..Len(KeyEntries)}

\* documents that are rendered: Maps of one, two and three keys, nested Maps,
\* Lists, scalars and substitutions
RenderDocs ==
  {<< KeyNo(i) >> : i \in 1..Len(KeyEntries)}
    \cup {<< KeyNo(3), KeyNo(4) >>, << KeyNo(6), KeyNo(4) >>}

KeyPaths == {<< >>, <<"k">>, <<"k", ".", "d">>, <<"k", ".", "m">>, <<"k", ".", "p">>, <<"k", ".", "p", ".", "z">>, <<"o">>, <<"x">>}

TypedNo(i) == NEntries + NForms + Len(FormEarlier) + Len(ArrayEntries) + i

\* one entry for the typed getters
TypedDocs == {<< TypedNo(i) >> : i \in 1..Len(TypedEntries)}

ArrayNo(i) == NEntries + NForms + Len(FormEarlier) + i

\* one or two of the entries with arrays
ArrayDocs ==
  {<< ArrayNo(i) >> : i \in 1..Len(ArrayEntries)}
    \cup {<< ArrayNo(i), ArrayNo(j) >> : i, j \in 1..Len(ArrayEntries)}

\* the number of the i-th form entry, of the i-th earlier entry
FormNo(i) == NEntries + i

EarlierNo(i) == NEntries + NForms + i

\* a form entry alone, or after one earlier entry
FormDocs ==
  {<< FormNo(i) >> : i \in 1..NForms}
    \cup {<< EarlierNo(j), FormNo(i) >> : j \in 1..Len(FormEarlier), i \in 1..NForms}

\* documents on which every kind of query is tried: a nested Map with a List,
\* a substitution with and without its target, a soft substitution
QueryDocs ==
  {<< KeyNo(1) >>, << KeyNo(3), KeyNo(4) >>, << KeyNo(3) >>, << KeyNo(5) >>,
   << TypedNo(11) >>, << TypedNo(12) >>, << TypedNo(4) >>}

QueryPaths == {<<"k">>, <<"k", ".", "d">>, <<"k", ".", "m">>, <<"v">>, <<"o">>}

QueryEnvNames == {<<"b">>, <<"o">>}

QueryEnvValues == {<<"8", "8", "8">>}

\* documents with substitutions, for the scanner that reads the environment
SourceDocs ==
  {<< TypedNo(11) >>, << TypedNo(12) >>, << TypedNo(3) >>, << ArrayNo(2) >>, << ArrayNo(3) >>,
   << ArrayNo(7), TypedNo(11) >>, << TypedNo(12), ArrayNo(7) >>, << KeyNo(3), KeyNo(4) >>}

SourceEnvValues == {<<"7">>, <<DQ, "q", DQ>>, <<"a", ":", "b">>}

SourcePaths == {<<"v">>, <<"b">>, <<"r">>, <<"k">>}

RECURSIVE Text(_)
Text(doc) ==
  IF Len(doc) = 0 THEN << >>
  ELSE IF Len(doc) = 1 THEN AllEntries[doc[1]]
  ELSE AllEntries[doc[1]] \o << NL >> \o Text(Tail(doc))

EnvNames == {<<"b">>}

EnvValues == {<<"7">>, <<DQ, "q", DQ>>}

TypedEnvValues == {<<"t", "r", "u", "e">>, <<"8", "8", "8">>, <<"1", ".", "5">>, <<"1", "+", "2", "i">>}

TypedPaths == {<<"v">>, <<"w">>}

\* the caller-supplied value handed to the default-valued sibling of a kind
TypedDefault(kind) ==
  CASE kind = "String" -> strVal(<<"d">>)
    [] kind = "Duration" -> [m |-> 7, e |-> 0]
    [] kind = "Bool" -> boolVal(TRUE)
    [] kind = "Int" -> intVal(0 - 9)
    [] kind = "UInt" -> intVal(9)
    [] kind = "Float" -> [m |-> 25, e |-> 0 - 1]
    [] OTHER -> [re |-> [m |-> 1, e |-> 0], im |-> [m |-> 1, e |-> 0]]

Paths == {<<"a">>, <<"b">>, <<"a", ".", "x">>, <<"a", ".", "y">>, <<"x">>, <<"r">>}

noTree == [status |-> "none", root |-> NoNode, returned |-> FALSE, err |-> "",
           items |-> << >>, received |-> 0, faithful |-> TRUE, peekMax |-> 0]

noCall == [op |-> "none", path |-> << >>, recv |-> NoNode, env |-> << >>,
           status |-> "none", node |-> NoNode, err |-> "", vals |-> << >>]

(***************************************************************************)
(* State                                                                   *)
(*   doc    the entries of the text handed to Parse                        *)
(*   pc     "start", then "parsed" / "failed" / "blocked" as Parse ends,   *)
(*          "crashed" once a query has exhausted the stack                 *)
(*   tree   the outcome of Parse (Tree.Root in tree.root)                  *)
(*   env    the process environment (os.LookupEnv)                         *)
(*   conf   the node of the Config view in hand (Config.root)              *)
(*   last   the last query on conf and what it returned                    *)
(***************************************************************************)
VARIABLES doc, pc, tree, env, conf, last

vars == << doc, pc, tree, env, conf, last >>

Init ==
  /\ doc \in Docs
  /\ pc = "start"
  /\ tree = noTree
  /\ env = << >>
  /\ conf = NoNode
  /\ last = noCall

\* parse.Parse(name, text)
DoParse ==
  /\ pc = "start"
  /\ tree' = Parse(Text(doc))
  /\ pc' = CASE tree'.status = "ok" -> "parsed"
             [] tree'.status = "error" -> "failed"
             [] OTHER -> "blocked"
  /\ UNCHANGED << doc, env, conf, last >>

\* Tree.GetConfig
GetConfig ==
  /\ pc = "parsed"
  /\ conf' = tree.root
  /\ last' = noCall
  /\ UNCHANGED << doc, pc, tree, env >>

\* a GetValue that stores what a top-level substitution resolved to in its
\* place in the tree
DoGetValueWriteBack(path) ==
  /\ pc = "parsed"
  /\ conf # NoNode
  /\ LET r == GetValue(conf, path, env)
     IN  /\ last' = [op |-> "GetValue", path |-> path, recv |-> conf, env |-> env,
                     status |-> r.status, node |-> r.node, err |-> r.err, vals |-> << >>]
         /\ pc' = IF r.status = "overflow" THEN "crashed" ELSE pc
         /\ tree' = IF r.status = "ok" /\ conf = tree.root /\ path \in DOMAIN tree.root.nodes
                         /\ tree.root.nodes[path].t = "Field"
                    THEN [tree EXCEPT !.root = put(tree.root, path, r.node)]
                    ELSE tree
  /\ UNCHANGED << doc, env, conf >>

\* Config.GetValue(path) on the view in hand
DoGetValue(path) ==
  /\ pc = "parsed"
  /\ conf # NoNode
  /\ LET r == GetValue(conf, path, env)
     IN  /\ last' = [op |-> "GetValue", path |-> path, recv |-> conf, env |-> env,
                     status |-> r.status, node |-> r.node, err |-> r.err, vals |-> << >>]
         /\ pc' = IF r.status = "overflow" THEN "crashed" ELSE pc
  /\ UNCHANGED << doc, tree, env, conf >>

\* Config.GetArray(path) on the view in hand
DoGetArray(path) ==
  /\ pc = "parsed"
  /\ conf # NoNode
  /\ LET r == GetArray(conf, path, env)
     IN  /\ last' = [op |-> "GetArray", path |-> path, recv |-> conf, env |-> env,
                     status |-> r.status, node |-> NoNode, err |-> r.err, vals |-> r.vals]
         /\ pc' = IF r.status = "overflow" THEN "crashed" ELSE pc
  /\ UNCHANGED << doc, tree, env, conf >>

\* the caller goes on with the Config that GetValue returned
UseView ==
  /\ pc = "parsed"
  /\ last.op = "GetValue"
  /\ last.status = "ok"
  /\ conf' = last.node
  /\ last' = noCall
  /\ UNCHANGED << doc, pc, tree, env >>

\* the caller goes on with one of the Configs that GetArray returned
UseElem(i) ==
  /\ pc = "parsed"
  /\ last.op = "GetArray"
  /\ last.status = "ok"
  /\ i \in 1..Len(last.vals)
  /\ conf' = last.vals[i]
  /\ last' = noCall
  /\ UNCHANGED << doc, pc, tree, env >>

\* os.Setenv by the process
Setenv(name, value) ==
  /\ pc \in {"start", "parsed"}
  /\ IF name \in DOMAIN env THEN env[name] # value ELSE TRUE
  /\ env' = [k \in DOMAIN env \cup {name} |-> IF k = name THEN value ELSE env[k]]
  /\ last' = noCall
  /\ UNCHANGED << doc, pc, tree, conf >>

\* os.Unsetenv by the process
Unsetenv(name) ==
  /\ pc \in {"start", "parsed"}
  /\ name \in DOMAIN env
  /\ env' = [k \in DOMAIN env \ {name} |-> env[k]]
  /\ last' = noCall
  /\ UNCHANGED << doc, pc, tree, conf >>

Next ==
  \/ DoParse
  \/ GetConfig
  \/ \E path \in Paths : DoGetValue(path)
  \/ \E path \in Paths : DoGetArray(path)
  \/ UseView
  \/ \E i \in 1..2 : UseElem(i)
  \/ \E name \in EnvNames, value \in EnvValues : Setenv(name, value)
  \/ \E name \in EnvNames : Unsetenv(name)

Spec == Init /\ [][Next]_vars

TypeOK ==
  /\ pc \in {"start", "parsed", "failed", "blocked", "crashed"}
  /\ tree.status \in {"none", "ok", "error", "blocked"}
  /\ last.op \in {"none", "GetValue", "GetArray"}

(***************************************************************************)
(* What a document defines, entry by entry                                 *)
(***************************************************************************)
\* the node stored under the dotted path below v, with no Field resolved
RECURSIVE rawWalk(_, _, _)
rawWalk(v, ps, i) ==
  IF i > Len(ps) THEN v
  ELSE IF v.t = "Map" /\ ps[i] \in DOMAIN v.nodes THEN rawWalk(v.nodes[ps[i]], ps, i + 1)
  ELSE NoNode

RawLookup(root, path) == rawWalk(root, Split(path), 1)

\* the tree of each entry parsed as a document of its own
EntryRoot == [e \in 1..NEntries |-> Parse(Entries[e]).root]

\* what entry e defines for the key k (NoNode: nothing)
DefOf(e, k) == RawLookup(EntryRoot[e], k)

\* the positions of d whose entry defines k
DefIdx(d, k) == {i \in 1..Len(d) : DefOf(d[i], k) # NoNode}

MaxOf(S) == CHOOSE i \in S : \A j \in S : j <= i

LastIdx(d, k) == MaxOf(DefIdx(d, k))

LastDef(d, k) == DefOf(d[LastIdx(d, k)], k)

\* the proper prefixes of the key k
Prefixes(k) == {Join(SubSeq(Split(k), 1, n)) : n \in 1..(Len(Split(k)) - 1)}

\* no entry after position i of d turns a proper prefix of k into a non-Map
KeptAfter(d, k, i) ==
  \A j \in (i + 1)..Len(d) : \A q \in Prefixes(k) : DefOf(d[j], q).t \in {"None", "Map"}

\* the last query was GetValue on the view of the whole tree
RootQuery == last.op = "GetValue" /\ last.recv = tree.root /\ pc \in {"parsed", "crashed"}

(***************************************************************************)
(* C1                                                                      *)
(***************************************************************************)
\* the queried key is defined two or more times, last as a scalar or a List
C1_Case ==
  /\ RootQuery
  /\ Cardinality(DefIdx(doc, last.path)) >= 2
  /\ LastDef(doc, last.path).t \notin {"Map", "Field"}
  /\ KeptAfter(doc, last.path, LastIdx(doc, last.path))

\* C1: a key defined two or more times whose last definition is a scalar or
\* a List resolves to exactly that last definition; nothing of the earlier
\* definitions survives, a List is replaced as a whole.
C1_LastWriteWins ==
  C1_Case => last.status = "ok" /\ last.node = LastDef(doc, last.path)

\* C1 witness: a shorter List replaced a longer one and the query returned it
C1_Witness ==
  /\ C1_Case
  /\ last.status = "ok"
  /\ last.node = LastDef(doc, last.path)
  /\ last.node.t = "List"
  /\ \E i \in DefIdx(doc, last.path) :
        /\ DefOf(doc[i], last.path).t = "List"
        /\ Len(DefOf(doc[i], last.path).nodes) > Len(last.node.nodes)

(***************************************************************************)
(* C2                                                                      *)
(***************************************************************************)
\* every definition of k in d is a Map, and there are two or more
AllMaps(d, k) ==
  /\ Cardinality(DefIdx(d, k)) >= 2
  /\ \A i \in DefIdx(d, k) : DefOf(d[i], k).t = "Map"

\* the positions of d whose definition of the Map k has the sub-key s
SubIdx(d, k, s) == {i \in DefIdx(d, k) : s \in DOMAIN DefOf(d[i], k).nodes}

\* the value of sub-key s in the definition of k at position i
SubDef(d, k, s, i) == DefOf(d[i], k).nodes[s]

\* n is the definition def, leaving aside what a Field has captured
SameDef(n, def) ==
  IF n.t = "Field" /\ def.t = "Field" THEN n.ident = def.ident /\ n.hard = def.hard
  ELSE n = def

\* the merged Map n has the union of the key sets; a sub-key of one
\* definition keeps its value; of several non-Map ones, the last wins
MergedOf(d, k, n) ==
  /\ n.t = "Map"
  /\ DOMAIN n.nodes = UNION {DOMAIN DefOf(d[i], k).nodes : i \in DefIdx(d, k)}
  /\ \A s \in DOMAIN n.nodes :
        \/ SubDef(d, k, s, MaxOf(SubIdx(d, k, s))).t = "Map"
        \/ SameDef(n.nodes[s], SubDef(d, k, s, MaxOf(SubIdx(d, k, s))))

\* the queried key is k.s where k is defined several times, always as a Map,
\* and s by one of the definitions only, as a plain value
C2_SubCase ==
  /\ RootQuery
  /\ Len(Split(last.path)) = 2
  /\ AllMaps(doc, Split(last.path)[1])
  /\ Cardinality(SubIdx(doc, Split(last.path)[1], Split(last.path)[2])) = 1
  /\ LastDef(doc, last.path).t \notin {"Map", "Field"}

\* C2: a key defined several times with Map values resolves to a Map whose
\* key set is the union of the definitions' key sets; a sub-key present in
\* one definition only keeps that value (a.x = 1 and a.y = 2 for
\* a { x = 1 } followed by a { y = 2 }), a sub-key of several definitions
\* follows the same rule, the later non-Map definition winning.
C2_MapsMerge ==
  /\ (RootQuery /\ AllMaps(doc, last.path))
       => (last.status = "ok" /\ MergedOf(doc, last.path, last.node))
  /\ C2_SubCase => (last.status = "ok" /\ last.node = LastDef(doc, last.path))

\* C2 witness: a.y was asked of a document whose first entry gives a the
\* sub-key x only and whose second entry gives it y only
C2_Witness ==
  /\ C2_SubCase
  /\ LastIdx(doc, last.path) = 2
  /\ DOMAIN DefOf(doc[1], Split(last.path)[1]).nodes
       # DOMAIN DefOf(doc[2], Split(last.path)[1]).nodes
  /\ last.node = LastDef(doc, last.path)

(***************************************************************************)
(* C3, C4                                                                  *)
(***************************************************************************)
\* the tree of the document d without its last entry
PrefixRoot(d) == Parse(Text(SubSeq(d, 1, Len(d) - 1))).root

\* the value the key k holds before the last entry of d
HeldBefore(d, k) == RawLookup(PrefixRoot(d), k)

\* the last entry of the document redefines the queried key, which held a
\* value, as a substitution (hard or not) whose path is neither a key of the
\* tree nor a name of the environment
RedefinedUnresolved(hard) ==
  /\ RootQuery
  /\ Len(doc) >= 2
  /\ DefOf(doc[Len(doc)], last.path).t = "Field"
  /\ DefOf(doc[Len(doc)], last.path).hard = hard
  /\ FieldString(DefOf(doc[Len(doc)], last.path)) \notin DOMAIN last.env
  /\ RawLookup(tree.root, FieldString(DefOf(doc[Len(doc)], last.path))) = NoNode
  /\ HeldBefore(doc, last.path).t \notin {"None", "Field"}

Stored == RawLookup(tree.root, last.path)

\* the queried key stores a substitution
FieldQuery == RootQuery /\ Stored.t = "Field"

\* the node the finished tree stores under the path of that substitution
Target == RawLookup(tree.root, FieldString(Stored))

\* the path of the substitution leads to a value of the finished tree
InTree == FieldQuery /\ Target.t \notin {"None", "Field"}

\* the first segment of the path of the substitution is no key of the tree
NotInTree == FieldQuery /\ RawLookup(tree.root, Stored.ident[1]) = NoNode

Stripped(v) ==
  IF Len(v) >= 2 /\ v[1] = DQ /\ v[Len(v)] = DQ THEN SubSeq(v, 2, Len(v) - 1) ELSE v

SubViewFieldQuery ==
  /\ last.op = "GetValue"
  /\ last.recv # tree.root
  /\ RawLookup(last.recv, last.path).t = "Field"
  /\ RawLookup(tree.root, FieldString(RawLookup(last.recv, last.path))).t
       \notin {"None", "Field"}

RECURSIVE BadSegment(_, _, _)
BadSegment(v, ps, i) ==
  IF i > Len(ps) THEN FALSE
  ELSE IF v.t = "Field" THEN FALSE
  ELSE IF v.t # "Map" THEN TRUE
  ELSE IF ps[i] \notin DOMAIN v.nodes THEN TRUE
  ELSE BadSegment(v.nodes[ps[i]], ps, i + 1)

\* C8: GetValue fails with "path not valid" whenever a segment of the path
\* has to index a node that is not a Map or names a key missing from the Map
\* being indexed.
C8_PathNotValid ==
  (last.op = "GetValue" /\ BadSegment(last.recv, Split(last.path), 1))
    => (last.status = "err" /\ last.err = "path not valid")

(***************************************************************************)
(* C9                                                                      *)
(***************************************************************************)
\* the queried key stores a substitution of a key that stores a
\* substitution of the queried key
TwoCycle == FieldQuery /\ Target.t = "Field" /\ FieldString(Target) = last.path

ScannerError == \E i \in 1..Len(tree.items) : tree.items[i].typ = "itemError"

\* C10: once Parse has been called on a text for which the scanner emits an
\* error item, or which does not fit the grammar, it has returned an error
\* and no tree, and Root is nil.
C10_ErrorAndNoTree ==
  /\ (pc # "start" /\ ScannerError)
       => (pc = "failed" /\ tree.returned /\ tree.err # "" /\ tree.root = NoNode)
  /\ (pc # "start" /\ tree.status # "ok")
       => (pc = "failed" /\ tree.returned /\ tree.err # "" /\ tree.root = NoNode)

(***************************************************************************)
(* C11                                                                     *)
(***************************************************************************)
\* the parser has received the error item of the scanner, its last item
ErrorReceived ==
  /\ tree.received >= 1
  /\ tree.received <= Len(tree.items)
  /\ tree.items[tree.received].typ = "itemError"

\* C11: Parse returns for every input: a call of Parse never ends up waiting
\* for an item of a scanner that has stopped, and once the parser has
\* received the error item of the scanner it has aborted with an error, in
\* whichever position of the grammar the error item arrived.
C11_ParseReturns ==
  /\ pc # "blocked"
  /\ (pc # "start" /\ ErrorReceived) => (tree.returned /\ tree.status = "error")

(***************************************************************************)
(* C12                                                                     *)
(***************************************************************************)
\* documents that end with an entry in one of the three surface forms
FormInit ==
  /\ doc \in FormDocs
  /\ pc = "start"
  /\ tree = noTree
  /\ env = << >>
  /\ conf = NoNode
  /\ last = noCall

FormNext == DoParse

FormSpec == FormInit /\ [][FormNext]_vars

\* the position among the form entries of the last entry of the document
FormOfDoc == doc[Len(doc)] - NEntries

\* the document with its last entry put in the form ki
InForm(ki) ==
  [doc EXCEPT ![Len(doc)] =
     FormNo(FormIndex(FormPathOf(FormOfDoc), FormValueOf(FormOfDoc), ki))]

\* the node of the value text v, parsed as the value of a key of its own
LeafOf(v) == RawLookup(Parse(<<"k", " ", "=", " ">> \o v).root, <<"k">>)

\* m is Maps nested along the segments ps from the i-th on, down to a node
\* that is leaf (or that is a Field of the same path and kind as leaf)
RECURSIVE NestedTo(_, _, _, _)
NestedTo(m, ps, i, leaf) ==
  IF i > Len(ps) THEN SameDef(m, leaf)
  ELSE /\ m.t = "Map"
       /\ ps[i] \in DOMAIN m.nodes
       /\ NestedTo(m.nodes[ps[i]], ps, i + 1, leaf)

\* C12: a.b.c = v, a { b { c = v } } and a = { b = { c = v } } give
\* structurally equal trees (Maps nested along the key path down to the leaf
\* value), alone and when merged into a Map that already holds entries
\* under a.
C12_FormsEqual ==
  pc # "start"
    => /\ tree.status = "ok"
       /\ \A ki \in 1..Len(FormKinds) : Parse(Text(InForm(ki))).root = tree.root
       /\ NestedTo(tree.root, FormPaths[FormPathOf(FormOfDoc)], 1,
                   LeafOf(FormValues[FormValueOf(FormOfDoc)]))

\* C12 witness: a.b.c = 1 in the dotted form has been merged into a Map
\* that already held a.x and now holds both
C12_Witness ==
  /\ pc = "parsed"
  /\ Len(doc) = 2
  /\ doc[1] = EarlierNo(1)
  /\ FormKinds[FormKindOf(FormOfDoc)] = "dotted"
  /\ Len(FormPaths[FormPathOf(FormOfDoc)]) = 3
  /\ RawLookup(tree.root, <<"a", ".", "x">>).t = "Number"
  /\ RawLookup(tree.root, <<"a", ".", "b", ".", "c">>).t = "Number"
  /\ Parse(Text(InForm(2))).root = tree.root

(***************************************************************************)
(* C13                                                                     *)
(***************************************************************************)
ArrayInit ==
  /\ doc \in ArrayDocs
  /\ pc = "start"
  /\ tree = noTree
  /\ env = << >>
  /\ conf = NoNode
  /\ last = noCall

ArrayNext ==
  \/ DoParse
  \/ GetConfig
  \/ \E path \in Paths : DoGetArray(path)
  \/ \E name \in EnvNames, value \in EnvValues : Setenv(name, value)
  \/ \E name \in EnvNames : Unsetenv(name)

ArraySpec == ArrayInit /\ [][ArrayNext]_vars

\* the last query was GetArray on the view of the whole tree
RootArrayQuery == last.op = "GetArray" /\ last.recv = tree.root

\* what the element n of a List is to resolve to: itself, or for a Field
\* the value of its path in the tree, else the text of the environment
\* variable of that name, else Nil when hard; NoNode stands for the error of
\* a soft Field (an element has no fallback) and for a path that leads to
\* another Field
ElementValue(n) ==
  IF n.t # "Field" THEN n
  ELSE IF RawLookup(tree.root, n.ident[1]) # NoNode
       THEN IF RawLookup(tree.root, FieldString(n)).t = "Field" THEN NoNode
            ELSE RawLookup(tree.root, FieldString(n))
  ELSE IF FieldString(n) \in DOMAIN last.env
       THEN [t |-> "String", quoted |-> last.env[FieldString(n)],
             text |-> Stripped(last.env[FieldString(n)])]
  ELSE IF n.hard THEN newNil
  ELSE NoNode

TypedInit ==
  /\ doc \in TypedDocs
  /\ pc = "start"
  /\ tree = noTree
  /\ env = << >>
  /\ conf = NoNode
  /\ last = noCall

\* the record of a getter's call and result r
typedCall(kind, path, r) ==
  [op |-> "GetTyped", kind |-> kind, path |-> path, recv |-> conf,
   env |-> env, status |-> r.status, err |-> r.err, val |-> r.val]

\* the record of a default-valued sibling's call and result r
defaultCall(kind, path, r) ==
  [op |-> "GetDefault", kind |-> kind, path |-> path, recv |-> conf,
   env |-> env, status |-> r.status, err |-> "", val |-> r.val]

\* Config.GetString ... Config.GetComplex on the view in hand
DoGetTyped(kind, path) ==
  /\ pc = "parsed"
  /\ conf # NoNode
  /\ last' = typedCall(kind, path, GetTyped(kind, conf, path, env))
  /\ pc' = IF last'.status = "overflow" THEN "crashed" ELSE pc
  /\ UNCHANGED << doc, tree, env, conf >>

\* Config.GetDefaultString ... Config.GetDefaultComplex on the view in hand
DoGetDefault(kind, path) ==
  /\ pc = "parsed"
  /\ conf # NoNode
  /\ last' = defaultCall(kind, path, GetDefault(kind, conf, path, env, TypedDefault(kind)))
  /\ pc' = IF last'.status = "overflow" THEN "crashed" ELSE pc
  /\ UNCHANGED << doc, tree, env, conf >>

TypedNext ==
  \/ DoParse
  \/ GetConfig
  \/ \E kind \in GetterKinds, path \in TypedPaths : DoGetTyped(kind, path)
  \/ \E kind \in GetterKinds, path \in TypedPaths : DoGetDefault(kind, path)
  \/ \E name \in EnvNames, value \in TypedEnvValues : Setenv(name, value)
  \/ \E name \in EnvNames : Unsetenv(name)

TypedSpec == TypedInit /\ [][TypedNext]_vars

(***************************************************************************)
(* C14                                                                     *)
(***************************************************************************)
\* the standard textual grammar of a kind, applied to a text
TextGrammar(kind, text) ==
  CASE kind = "Bool" -> strconvParseBool(text)
    [] kind = "Int" -> strconvParseInt(text)
    [] kind = "UInt" -> strconvParseUint(text)
    [] kind = "Float" -> strconvParseFloat(text)
    [] OTHER -> sscanComplex(text)

\* the node the path of the last query resolves to
Resolved == GetValue(last.recv, last.path, last.env)

\* the last query was a non-string getter whose path resolves to a String
\* with a text of the getter's grammar
StringOfKind ==
  /\ last.op = "GetTyped"
  /\ last.kind \in {"Bool", "Int", "UInt", "Float", "Complex"}
  /\ Resolved.status = "ok"
  /\ Resolved.node.t = "String"
  /\ TextGrammar(last.kind, Resolved.node.text).status = "ok"

\* C14: a non-string getter (GetBool, GetInt, GetUInt, GetFloat, GetComplex)
\* whose path resolves to a String with a text of its type's grammar returns
\* the parsed value and no error.
C14_StringAccepted ==
  StringOfKind =>
    /\ last.status = "ok"
    /\ last.val = TextGrammar(last.kind, Resolved.node.text).val

(***************************************************************************)
(* C15                                                                     *)
(***************************************************************************)
\* what the getter of the last query's kind gives for the same path, view
\* and environment
SiblingResult == GetTyped(last.kind, last.recv, last.path, last.env)

\* C15: GetDefaultX(path, d) returns what GetX(path) returns when GetX
\* succeeds, and d when GetX reports an error; it reports no error itself.
C15_DefaultSibling ==
  (last.op = "GetDefault" /\ last.status = "ok") =>
    /\ last.err = ""
    /\ SiblingResult.status = "ok" => last.val = SiblingResult.val
    /\ SiblingResult.status = "err" => last.val = TypedDefault(last.kind)

\* C15 witness: GetDefaultInt gave -9 for a soft substitution that resolves
\* nowhere, and 888 would be the answer with b in the environment.
C15_Witness ==
  /\ last.op = "GetDefault"
  /\ last.kind = "Int"
  /\ last.path = <<"v">>
  /\ RawLookup(tree.root, <<"v">>).t = "Field"
  /\ ~RawLookup(tree.root, <<"v">>).hard
  /\ SiblingResult.err = "invalid field node"
  /\ last.val = intVal(0 - 9)
  /\ GetDefault("Int", last.recv, last.path, [k \in {<<"b">>} |-> <<"8", "8", "8">>],
                intVal(0)).val = intVal(888)

(***************************************************************************)
(* Key enumeration                                                         *)
(***************************************************************************)
KeyInit ==
  /\ doc \in KeyDocs
  /\ pc = "start"
  /\ tree = noTree
  /\ env = << >>
  /\ conf = NoNode
  /\ last = noCall

\* Config.GetKeySet(path) on the view in hand; the slice has the keys in any
\* order
DoGetKeySet(path) ==
  /\ pc = "parsed"
  /\ conf # NoNode
  /\ LET r == GetKeySet(conf, path, env)
     IN  /\ \E q \in KeyOrders(r.keys) :
               last' = [op |-> "GetKeySet", path |-> path, recv |-> conf, env |-> env,
                        status |-> r.status, node |-> NoNode, err |-> r.err, vals |-> q]
         /\ pc' = IF r.status = "overflow" THEN "crashed" ELSE pc
  /\ UNCHANGED << doc, tree, env, conf >>

KeyNext ==
  \/ DoParse
  \/ GetConfig
  \/ \E path \in KeyPaths \ {<< >>} : DoGetValue(path)
  \/ UseView
  \/ \E path \in KeyPaths : DoGetKeySet(path)

KeySpec == KeyInit /\ [][KeyNext]_vars

(***************************************************************************)
(* C16                                                                     *)
(***************************************************************************)
\* the node the path of the last query names below the view: the view's own
\* node for the empty path, and for a substitution stored in the whole tree
\* the node its path names there
KeyNode ==
  IF Len(last.path) = 0 THEN last.recv
  ELSE IF rawWalk(last.recv, Split(last.path), 1).t = "Field" /\ last.recv = tree.root
       THEN RawLookup(tree.root, FieldString(rawWalk(last.recv, Split(last.path), 1)))
  ELSE rawWalk(last.recv, Split(last.path), 1)

\* C16: GetKeySet(path) returns exactly the keys of the Map at the path,
\* each key once, in any order; the empty path names the view's own node;
\* a missing path, a List and a scalar give an error.
C16_KeySet ==
  last.op = "GetKeySet" =>
    /\ KeyNode.t = "Map"
         => /\ last.status = "ok"
            /\ {last.vals[i] : i \in 1..Len(last.vals)} = DOMAIN KeyNode.nodes
            /\ Len(last.vals) = Cardinality(DOMAIN KeyNode.nodes)
    /\ KeyNode.t \notin {"Map", "Field"} => last.status = "err"

\* C16 witness: the keys d, m, p of the Map under k, asked from the view of
\* the whole tree, came out in another order than that of the text
C16_Witness ==
  /\ last.op = "GetKeySet"
  /\ last.recv = tree.root
  /\ last.path = <<"k">>
  /\ last.status = "ok"
  /\ last.vals = << <<"p">>, <<"d">>, <<"m">> >>

(***************************************************************************)
(* Every kind of query on one tree                                         *)
(***************************************************************************)
QueryInit ==
  /\ doc \in QueryDocs
  /\ pc = "start"
  /\ tree = noTree
  /\ env = << >>
  /\ conf = NoNode
  /\ last = noCall

QueryNext ==
  \/ DoParse
  \/ GetConfig
  \/ \E path \in QueryPaths : DoGetValue(path)
  \/ \E path \in QueryPaths : DoGetArray(path)
  \/ \E kind \in GetterKinds, path \in QueryPaths : DoGetTyped(kind, path)
  \/ \E kind \in GetterKinds, path \in QueryPaths : DoGetDefault(kind, path)
  \/ \E path \in QueryPaths \cup {<< >>} : DoGetKeySet(path)
  \/ UseView
  \/ \E i \in 1..2 : UseElem(i)
  \/ \E name \in QueryEnvNames, value \in QueryEnvValues : Setenv(name, value)
  \/ \E name \in QueryEnvNames : Unsetenv(name)

QuerySpec == QueryInit /\ [][QueryNext]_vars

(***************************************************************************)
(* C17                                                                     *)
(***************************************************************************)
\* the last query returned what its view, path and environment give, whatever
\* was asked before it
ResultIsOfInputs ==
  /\ last.op = "GetValue" =>
       /\ last.status = GetValue(last.recv, last.path, last.env).status
       /\ last.node = GetValue(last.recv, last.path, last.env).node
  /\ last.op = "GetArray" =>
       /\ last.status = GetArray(last.recv, last.path, last.env).status
       /\ last.vals = GetArray(last.recv, last.path, last.env).vals
  /\ last.op = "GetTyped" =>
       /\ last.status = GetTyped(last.kind, last.recv, last.path, last.env).status
       /\ last.val = GetTyped(last.kind, last.recv, last.path, last.env).val
  /\ last.op = "GetDefault" =>
       last.val = GetDefault(last.kind, last.recv, last.path, last.env,
                             TypedDefault(last.kind)).val
  /\ last.op = "GetKeySet" =>
       /\ last.status = GetKeySet(last.recv, last.path, last.env).status
       /\ {last.vals[i] : i \in 1..Len(last.vals)}
            = GetKeySet(last.recv, last.path, last.env).keys

\* the view in hand is the root of the tree or a node below it, or the String
\* or Nil that a substitution resolved to
RECURSIVE Below(_, _)
Below(n, v) ==
  \/ n = v
  \/ v.t = "Map" /\ \E k \in DOMAIN v.nodes : Below(n, v.nodes[k])
  \/ v.t = "List" /\ \E i \in 1..Len(v.nodes) : Below(n, v.nodes[i])

SourceInit ==
  /\ doc \in SourceDocs
  /\ pc = "start"
  /\ tree = noTree
  /\ env = << >>
  /\ conf = NoNode
  /\ last = noCall

\* parse.Parse(name, text), scanning with the environment of the moment
DoParseEnv ==
  /\ pc = "start"
  /\ tree' = ParseEnv(Text(doc), env)
  /\ pc' = CASE tree'.status = "ok" -> "parsed"
             [] tree'.status = "error" -> "failed"
             [] OTHER -> "blocked"
  /\ UNCHANGED << doc, env, conf, last >>

SourceNext ==
  \/ DoParseEnv
  \/ GetConfig
  \/ \E path \in SourcePaths : DoGetValue(path)
  \/ \E name \in EnvNames, value \in SourceEnvValues : Setenv(name, value)
  \/ \E name \in EnvNames : Unsetenv(name)

SourceSpec == SourceInit /\ [][SourceNext]_vars

(***************************************************************************)
(* C18                                                                     *)
(***************************************************************************)
\* C18: scanning and parsing never read the environment: the outcome of Parse
\* (the items the scanner sent, the tree) is that of the same text under the
\* empty environment, whatever the environment was when Parse ran.
C18_ParseIgnoresEnv ==
  pc \in {"parsed", "failed", "blocked"} => tree = ParseEnv(Text(doc), << >>)

(***************************************************************************)
(* Rendering a tree and its copy                                           *)
(***************************************************************************)
RenderInit ==
  /\ doc \in RenderDocs
  /\ pc = "start"
  /\ tree = noTree
  /\ env = << >>
  /\ conf = NoNode
  /\ last = noCall

\* testParse: tmpl.Root.String(), tmpl.Root.Copy().String(), and the first
\* once more; vals holds the three texts
DoRender ==
  /\ pc = "parsed"
  /\ \E s1 \in Renderings(tree.root), s2 \in Renderings(Copy(tree.root)),
        s3 \in Renderings(tree.root) :
       last' = [op |-> "String", path |-> << >>, recv |-> tree.root, env |-> env,
                status |-> "ok", node |-> NoNode, err |-> "", vals |-> << s1, s2, s3 >>]
  /\ UNCHANGED << doc, pc, tree, env, conf >>

RenderNext ==
  \/ DoParse
  \/ DoRender

RenderSpec == RenderInit /\ [][RenderNext]_vars

(***************************************************************************)
(* C19                                                                     *)
(***************************************************************************)
\* C19: the String() of a parsed root and the String() of its Copy() are the
\* same text, and so are two String() of the same root: a Map's entries come
\* as key = (value) in one fixed order.
C19_SameRendering ==
  last.op = "String" => (last.vals[1] = last.vals[2] /\ last.vals[1] = last.vals[3])

(***************************************************************************)
(* Number literals: the document is v= followed by a short text over the   *)
(* runes the number scanner accepts                                        *)
(***************************************************************************)
NumberRunes == {"0", "1", "2", "-", "+", ".", "e", "i", "x"}

MaxNumberLen == 3

\* the exponent of the text has at most one digit: the values stay within
\* the integers the model computes with
ShortExponent(text) ==
  \A j \in 1..Len(text) :
    text[j] = "e" =>
      LET rest == Slice(text, j, Len(text))
          digits == IF Len(rest) > 0 /\ rest[1] \in {"+", "-"} THEN Tail(rest) ELSE rest
      IN  spanLen(digits, Digits) <= 1

NumberTexts ==
  {text \in UNION {[1..n -> NumberRunes] : n \in 1..MaxNumberLen} : ShortExponent(text)}

NumberGetters == {"Int", "UInt", "Float", "Complex"}

\* doc is the text of the value itself
NumberInit ==
  /\ doc \in NumberTexts
  /\ pc = "start"
  /\ tree = noTree
  /\ env = << >>
  /\ conf = NoNode
  /\ last = noCall

\* Parse of the document v=<doc>
DoParseNumber ==
  /\ pc = "start"
  /\ tree' = Parse(<<"v", "=">> \o doc)
  /\ pc' = CASE tree'.status = "ok" -> "parsed"
             [] tree'.status = "error" -> "failed"
             [] OTHER -> "blocked"
  /\ UNCHANGED << doc, env, conf, last >>

NumberNext ==
  \/ DoParseNumber
  \/ GetConfig
  \/ \E kind \in NumberGetters : DoGetTyped(kind, <<"v">>)

NumberSpec == NumberInit /\ [][NumberNext]_vars

(***************************************************************************)
(* C20                                                                     *)
(***************************************************************************)
\* the node of v in the tree
NumberOfV == RawLookup(tree.root, <<"v">>)

\* the scanner gave the whole text as one number token and a Number was made
NumberMade == pc = "parsed" /\ NumberOfV.t = "Number" /\ NumberOfV.text = doc

\* C20 as stated: every number token for which the construction of the
\* Number succeeds has at least one of the int64, uint64 and float64 flags
\* set, the literals with a trailing i such as 2i too.
C20_IntUintOrFloat ==
  NumberMade => (NumberOfV.isInt \/ NumberOfV.isUint \/ NumberOfV.isFloat)

\* C20 amended: at least one of the four flags is set; an imaginary literal
\* whose value is not zero, such as 2i, has the complex flag alone, and every
\* other literal has at least one of the int64, uint64 and float64 flags,
\* float64 whenever int64 or uint64.
C20_SomeFlag ==
  NumberMade =>
    /\ NumberOfV.isInt \/ NumberOfV.isUint \/ NumberOfV.isFloat \/ NumberOfV.isComplex
    /\ IF NumberOfV.isComplex /\ NumberOfV.complex128.im # floatZero
       THEN ~NumberOfV.isInt /\ ~NumberOfV.isUint /\ ~NumberOfV.isFloat
       ELSE NumberOfV.isInt \/ NumberOfV.isUint \/ NumberOfV.isFloat
    /\ (NumberOfV.isInt \/ NumberOfV.isUint) => NumberOfV.isFloat

\* C20 witness: 2i was parsed to a Number that is complex only, and GetFloat
\* on it reports an error
C20_Witness ==
  /\ NumberMade
  /\ doc = <<"2", "i">>
  /\ NumberOfV.isComplex
  /\ ~NumberOfV.isFloat
  /\ last.op = "GetTyped"
  /\ last.kind = "Float"
  /\ last.status = "err"

(***************************************************************************)
(* Parse of a text that is not made of numbered entries                    *)
(***************************************************************************)
\* Tree.Parse of the given text
DoParseText(text) ==
  /\ pc = "start"
  /\ tree' = Parse(text)
  /\ pc' = CASE tree'.status = "ok" -> "parsed"
             [] tree'.status = "error" -> "failed"
             [] OTHER -> "blocked"
  /\ UNCHANGED << doc, env, conf, last >>

(***************************************************************************)
(* Complex literals.  A document is << re, im, form >>: the text re im i   *)
(* as the value of z (form "value") or as the one element of the array z   *)
(* (form "element"); re is empty for an imaginary literal, im of a pair    *)
(* starts with its sign.                                                   *)
(***************************************************************************)
ComplexReals == {<< >>, <<"1">>, <<"0">>, <<"-", "1">>, <<"1", ".", "5">>, <<"2", "e", "1">>}

ComplexImags == {<<"2">>, <<"0">>, <<"+", "2">>, <<"-", "2">>, <<"+", "0">>, <<"+", "1", ".", "5">>,
                 <<"-", "0", ".", "5">>}

ComplexForms == {"value", "element"}

ComplexDocs == ComplexReals \X ComplexImags \X ComplexForms

\* the literal of a document
ComplexLiteral(d) == d[1] \o d[2] \o <<"i">>

\* the text of a document
ComplexText(d) ==
  IF d[3] = "value" THEN <<"z", "=">> \o ComplexLiteral(d)
  ELSE <<"z", "=", "[">> \o ComplexLiteral(d) \o <<"]">>

ComplexInit ==
  /\ doc \in ComplexDocs
  /\ pc = "start"
  /\ tree = noTree
  /\ env = << >>
  /\ conf = NoNode
  /\ last = noCall

ComplexNext ==
  \/ DoParseText(ComplexText(doc))
  \/ GetConfig
  \/ \E kind \in {"Complex", "Float"} : DoGetTyped(kind, <<"z">>)
  \/ DoGetArray(<<"z">>)
  \/ \E i \in 1..1 : UseElem(i)

ComplexSpec == ComplexInit /\ [][ComplexNext]_vars

(***************************************************************************)
(* C21                                                                     *)
(***************************************************************************)
\* the document holds a pair re+imi or re-imi
IsPair(d) == Len(d[1]) > 0 /\ d[2][1] \in {"+", "-"}

\* the node the literal of the document became
LiteralNode ==
  IF doc[3] = "value" THEN RawLookup(tree.root, <<"z">>)
  ELSE IF RawLookup(tree.root, <<"z">>).t = "List" /\ Len(RawLookup(tree.root, <<"z">>).nodes) = 1
  THEN RawLookup(tree.root, <<"z">>).nodes[1]
  ELSE NoNode

\* the pair the literal of the document denotes
PairOf(d) == [re |-> parseFloatVal(d[1]), im |-> parseFloatVal(d[2])]

\* C21: a complex literal re+imi or re-imi written as the value of an entry
\* or as an array element parses to one Number whose complex representation
\* is valid and holds the pair, and GetComplex on the path of the entry
\* returns the pair.
C21_ComplexLiteral ==
  (pc # "start" /\ IsPair(doc)) =>
    /\ pc = "parsed"
    /\ LiteralNode.t = "Number"
    /\ LiteralNode.isComplex
    /\ LiteralNode.complex128 = PairOf(doc)
    /\ (last.op = "GetTyped" /\ last.kind = "Complex" /\ doc[3] = "value") =>
         (last.status = "ok" /\ last.val = PairOf(doc))

(***************************************************************************)
(* Runs of literal tokens.  A document is << toks, sep, place >>: the      *)
(* token texts toks, the whitespace sep between two of them, and the place *)
(* of the run, which is the value of an entry: the last thing of the text, *)
(* before a comma, before a newline, or before the closing brace of an     *)
(* object.                                                                 *)
(***************************************************************************)
RunTokens == {<<"1">>, <<"t", "r", "u", "e">>, <<"n", "i", "l">>, <<DQ, "s", DQ>>, <<"w">>}

RunSeps == {<<" ">>, <<" ", TAB, " ">>}

RunPlaces == {"last", "comma", "newline", "brace"}

\* tokens in a run
MaxRun == 3

RunDocs == (UNION {[1..n -> RunTokens] : n \in 1..MaxRun}) \X RunSeps \X RunPlaces

\* the texts of toks with sep between them
RECURSIVE JoinRun(_, _)
JoinRun(toks, sep) ==
  IF Len(toks) = 0 THEN << >>
  ELSE IF Len(toks) = 1 THEN toks[1]
  ELSE toks[1] \o sep \o JoinRun(Tail(toks), sep)

\* the text of a document
RunText(d) ==
  CASE d[3] = "last" -> <<"v", "=">> \o JoinRun(d[1], d[2])
    [] d[3] = "comma" -> <<"v", "=">> \o JoinRun(d[1], d[2]) \o <<",", "u", "=", "2">>
    [] d[3] = "newline" -> <<"v", "=">> \o JoinRun(d[1], d[2]) \o <<NL, "u", "=", "2">>
    [] OTHER -> <<"o", "{", "v", "=">> \o JoinRun(d[1], d[2]) \o <<"}">>

RunPaths == {<<"v">>, <<"o", ".", "v">>, <<"u">>}

RunInit ==
  /\ doc \in RunDocs
  /\ pc = "start"
  /\ tree = noTree
  /\ env = << >>
  /\ conf = NoNode
  /\ last = noCall

RunNext ==
  \/ DoParseText(RunText(doc))
  \/ GetConfig
  \/ \E path \in RunPaths : DoGetTyped("String", path)

RunSpec == RunInit /\ [][RunNext]_vars

(***************************************************************************)
(* C22                                                                     *)
(***************************************************************************)
\* the node the run of the document became
RunNode ==
  IF doc[3] = "brace" THEN RawLookup(tree.root, <<"o", ".", "v">>)
  ELSE RawLookup(tree.root, <<"v">>)

\* the token text without its quotes
Unquoted(tok) == IF tok[1] = DQ THEN Slice(tok, 1, Len(tok) - 1) ELSE tok

\* the kind of node a token alone becomes
KindOfToken(tok) ==
  CASE tok = <<"1">> -> "Number"
    [] tok = <<"t", "r", "u", "e">> -> "Bool"
    [] tok = <<"n", "i", "l">> -> "Nil"
    [] OTHER -> "String"

\* what follows the run is left to the grammar: the rest of the text parsed
RestParsed == doc[3] \in {"comma", "newline"} => RawLookup(tree.root, <<"u">>).t = "Number"

\* C22: a run of two or more literal tokens in value position becomes one
\* String whose text is the tokens' texts joined by one space, whatever the
\* whitespace between them; a run of one token keeps the kind of the token;
\* the newline, comma or closing bracket that ends the run is left to the
\* grammar.
C22_RunBecomesString ==
  pc # "start" =>
    /\ pc = "parsed"
    /\ RestParsed
    /\ IF Len(doc[1]) = 1 THEN RunNode.t = KindOfToken(doc[1][1])
       ELSE /\ RunNode.t = "String"
            /\ \/ RunNode.text = JoinRun(doc[1], <<" ">>)
               \/ RunNode.text = JoinRun([i \in 1..Len(doc[1]) |-> Unquoted(doc[1][i])], <<" ">>)

(***************************************************************************)
(* Arrays.  A document is a sequence of pieces; the text is r=[ pieces ].   *)
(***************************************************************************)
ValuePieces ==
  {<<"1">>, <<"2">>, <<"$", "{", "x", "}">>, <<"w">>, <<"{", "a", "=", "1", "}">>, <<"[", "3", "]">>}

SepPieces == {<<",">>, <<NL>>}

SpacePiece == <<" ">>

Pieces == ValuePieces \cup SepPieces \cup {SpacePiece}

\* pieces between the brackets
MaxPieces == 4

\* the pieces without the spaces
NoSpaces(d) == SelectSeq(d, LAMBDA x : x # SpacePiece)

\* values with one separator between each two
Separated(d) ==
  /\ Len(NoSpaces(d)) % 2 = 1
  /\ \A i \in 1..Len(NoSpaces(d)) :
       IF i % 2 = 1 THEN NoSpaces(d)[i] \in ValuePieces ELSE NoSpaces(d)[i] \in SepPieces

\* every sequence of up to MaxPieces pieces, and the separated arrays among
\* the longest with one more separator at their end
ListDocs ==
  (UNION {[1..n -> Pieces] : n \in 0..MaxPieces})
    \cup {d \o << s >> : d \in {e \in [1..MaxPieces -> Pieces] : Separated(e)}, s \in SepPieces}

RECURSIVE Flatten(_)
Flatten(ps) == IF Len(ps) = 0 THEN << >> ELSE ps[1] \o Flatten(Tail(ps))

\* the text of a document
ListText(d) == <<"r", "=", "[">> \o Flatten(d) \o <<"]">>

ListInit ==
  /\ doc \in ListDocs
  /\ pc = "start"
  /\ tree = noTree
  /\ env = << >>
  /\ conf = NoNode
  /\ last = noCall

ListNext ==
  \/ DoParseText(ListText(doc))
  \/ GetConfig
  \/ DoGetArray(<<"r">>)
  \/ \E i \in 1..MaxPieces : UseElem(i)

ListSpec == ListInit /\ [][ListNext]_vars

(***************************************************************************)
(* C23                                                                     *)
(***************************************************************************)
\* all but the last piece
Front(d) == SubSeq(d, 1, Len(d) - 1)

\* the document is a separated array with one more separator at its end
OneTrailing(d) == Len(d) >= 2 /\ d[Len(d)] \in SepPieces /\ Separated(Front(d))

\* the document ends with two commas, or starts with a comma
TwoCommas(d) == Len(d) >= 2 /\ d[Len(d)] = <<",">> /\ d[Len(d) - 1] = <<",">>

LeadingComma(d) == Len(d) >= 1 /\ d[1] = <<",">>

\* the List of r in a tree
ListOf(tr) == RawLookup(tr.root, <<"r">>)

\* C23: an array with one trailing separator, comma or newline, before the
\* closing bracket parses to the same List as the array without it; a second
\* consecutive comma before the bracket, or a leading comma, is a parse
\* error.
C23_OneTrailingSeparator ==
  pc # "start" =>
    /\ OneTrailing(doc) =>
         /\ tree.status = Parse(ListText(Front(doc))).status
         /\ tree.root = Parse(ListText(Front(doc))).root
    /\ (TwoCommas(doc) \/ LeadingComma(doc)) => pc = "failed"

(***************************************************************************)
(* C24                                                                     *)
(***************************************************************************)
\* a value piece is followed by another with spaces alone between them
Unseparated(d) ==
  \E i, j \in 1..Len(d) :
    /\ i + 1 < j
    /\ d[i] \in ValuePieces
    /\ d[j] \in ValuePieces
    /\ \A k \in (i + 1)..(j - 1) : d[k] = SpacePiece

\* the number pieces of the document, one after the other
NumbersOf(d) == Flatten(SelectSeq(d, LAMBDA x : x \in {<<"1">>, <<"2">>}))

\* the document holds numbers, separators and spaces alone
NumbersOnly(d) == \A i \in 1..Len(d) : d[i] \in {<<"1">>, <<"2">>, SpacePiece} \cup SepPieces

\* C24: an array in which a value is followed on the same line by another
\* value with no comma or newline between them is a parse error, and a
\* parsed List omits no value token that stood between the brackets: the
\* texts of its elements are the number tokens of the document, in order.
C24_NoValueOmitted ==
  /\ (pc # "start" /\ Unseparated(doc)) => pc = "failed"
  /\ (pc = "parsed" /\ NumbersOnly(doc)) =>
       \A s \in Renderings(ListOf(tree)) : stripSpaces(s) = NumbersOf(doc)

(***************************************************************************)
(* C25                                                                     *)
(***************************************************************************)
\* the document is two values with a comma between them
IsTwoValues(d) == Len(d) = 3 /\ d[1] \in ValuePieces /\ d[2] = <<",">> /\ d[3] \in ValuePieces

\* the two values the other way round
Swapped(d) == << d[3], d[2], d[1] >>

ScanRunes == {"a", "$", ",", ":", "=", "{", "}", "[", "]", " "}

\* runes in an input text
MaxScanLen == 3

ScanDocs == UNION {[1..n -> ScanRunes] : n \in 0..MaxScanLen}

ScanInit ==
  /\ doc \in ScanDocs
  /\ pc = "start"
  /\ tree = noTree
  /\ env = << >>
  /\ conf = NoNode
  /\ last = noCall

\* collect: lex the input and gather the emitted items
DoCollect ==
  /\ pc = "start"
  /\ tree' = [noTree EXCEPT !.items = lex(doc).items, !.received = Len(lex(doc).items)]
  /\ pc' = "lexed"
  /\ UNCHANGED << doc, env, conf, last >>

ScanNext == DoCollect

ScanSpec == ScanInit /\ [][ScanNext]_vars

(***************************************************************************)
(* C26                                                                     *)
(***************************************************************************)
\* the character of a punctuation item type
PunctuationOf(typ) ==
  CASE typ = "itemComma" -> ","
    [] typ = "itemColon" -> ":"
    [] typ = "itemEquals" -> "="
    [] typ = "itemOpenCurly" -> "{"
    [] typ = "itemCloseCurly" -> "}"
    [] typ = "itemOpenSquare" -> "["
    [] typ = "itemCloseSquare" -> "]"
    [] OTHER -> ""

\* C26: each punctuation token the scanner emits has the one character as its
\* text and the offset of that character as its position, and no token that
\* is not a substitution holds a $ left over from earlier input.
C26_PunctuationIsOneCharacter ==
  pc = "lexed" =>
    \A i \in 1..Len(tree.items) :
      /\ PunctuationOf(tree.items[i].typ) # "" =>
           /\ tree.items[i].val = << PunctuationOf(tree.items[i].typ) >>
           /\ doc[tree.items[i].pos + 1] = PunctuationOf(tree.items[i].typ)
      /\ tree.items[i].typ \notin {"itemHardSubstitution", "itemSoftSubstitution", "itemError"} =>
           \A j \in 1..Len(tree.items[i].val) : tree.items[i].val[j] # "$"

(***************************************************************************)
(* Keywords.  A document is a keyword, the set of its positions written in *)
(* upper case, and the place of the entry; the text is k=<word>.           *)
(***************************************************************************)
Keywords ==
  {<<"t", "r", "u", "e">>, <<"f", "a", "l", "s", "e">>, <<"o", "n">>,
   <<"o", "f", "f">>, <<"n", "i", "l">>}

KeywordPlaces == {"entry", "nested"}

KeywordDocs ==
  {<< w, up, place >> : w \in Keywords, up \in SUBSET (1..5), place \in KeywordPlaces}

UpperOf(r) ==
  CASE r = "t" -> "T" [] r = "r" -> "R" [] r = "u" -> "U" [] r = "e" -> "E"
    [] r = "f" -> "F" [] r = "a" -> "A" [] r = "l" -> "L" [] r = "s" -> "S"
    [] r = "o" -> "O" [] r = "n" -> "N" [] r = "i" -> "I"
    [] OTHER -> r

Cased(d) == [i \in 1..Len(d[1]) |-> IF i \in d[2] THEN UpperOf(d[1][i]) ELSE d[1][i]]

KeywordText(d) ==
  IF d[3] = "nested" THEN <<"o", "{", "k", "=">> \o Cased(d) \o <<"}">>
  ELSE <<"k", "=">> \o Cased(d)

KeywordPaths == {<<"k">>, <<"o", ".", "k">>}

KeywordInit ==
  /\ doc \in {d \in KeywordDocs : d[2] \subseteq 1..Len(d[1])}
  /\ pc = "start"
  /\ tree = noTree
  /\ env = << >>
  /\ conf = NoNode
  /\ last = noCall

KeywordNext ==
  \/ DoParseText(KeywordText(doc))
  \/ GetConfig
  \/ \E kind \in {"Bool", "String"}, path \in KeywordPaths : DoGetTyped(kind, path)

KeywordSpec == KeywordInit /\ [][KeywordNext]_vars

(***************************************************************************)
(* C27                                                                     *)
(***************************************************************************)
\* the node the keyword of the document became
KeywordNode ==
  IF doc[3] = "nested" THEN RawLookup(tree.root, <<"o", ".", "k">>)
  ELSE RawLookup(tree.root, <<"k">>)

\* the node a keyword stands for
NodeOfKeyword(w) ==
  CASE w \in {<<"t", "r", "u", "e">>, <<"o", "n">>} -> newBool(TRUE)
    [] w \in {<<"f", "a", "l", "s", "e">>, <<"o", "f", "f">>} -> newBool(FALSE)
    [] OTHER -> newNil

\* C27: true, false, on and off in any letter case are scanned as the boolean
\* keyword and parsed to a Bool node, nil in any letter case as the null
\* keyword and parsed to a Nil node.
C27_KeywordsInAnyCase ==
  pc # "start" =>
    /\ pc = "parsed"
    /\ \E i \in 1..Len(tree.items) :
         /\ tree.items[i].typ = (IF doc[1] = <<"n", "i", "l">> THEN "itemNull" ELSE "itemBool")
         /\ tree.items[i].val = Cased(doc)
    /\ KeywordNode = NodeOfKeyword(doc[1])

(***************************************************************************)
(* The scanner task and the parser, step by step.  Here pc holds the       *)
(* position of both: pc.parser is the position of the caller of Parse,     *)
(* pc.scanner the position of the goroutine started by lex, and pc.made    *)
(* the number of items the scanner has built (handed over or waiting in    *)
(* emit).  The parser is deterministic: last holds the outcome of the     *)
(* Parse under way, with the number of items it takes from the channel,    *)
(* and tree shows what has happened so far.  The channel is unbuffered, so *)
(* an item passes in one step taken by both sides.  A document is a        *)
(* sequence of pieces and the form of the text: r=[ pieces ] or r= pieces. *)
(***************************************************************************)
HandoverPieces ==
  {<<"1">>, <<"w">>, <<"$", "{", "x", "}">>, <<"[", "3", "]">>, <<DQ>>, <<",">>, <<NL>>, <<" ">>}

\* pieces in a document
MaxHandover == 3

HandoverForms == {"array", "entry"}

HandoverDocs == (UNION {[1..n -> HandoverPieces] : n \in 0..MaxHandover}) \X HandoverForms

HandoverText(d) ==
  IF d[2] = "array" THEN ListText(d[1]) ELSE <<"r", "=">> \o Flatten(d[1])

HandoverInit ==
  /\ doc \in HandoverDocs
  /\ pc = [parser |-> "start", scanner |-> "idle", made |-> 0]
  /\ tree = noTree
  /\ env = << >>
  /\ conf = NoNode
  /\ last = noTree

\* the k-th item the scanner sends: after its end-of-file item it sends
\* end-of-file again
SentItem(k) ==
  IF k <= Len(tree.items) THEN tree.items[k] ELSE tree.items[Len(tree.items)]

\* Tree.Parse up to startParse(lex(...)): the scanner task is started
StartParse ==
  /\ pc.parser = "start"
  /\ last' = Parse(HandoverText(doc))
  /\ tree' = [noTree EXCEPT !.items = last'.items]
  /\ pc' = [parser |-> "parsing", scanner |-> "running", made |-> 0]
  /\ UNCHANGED << doc, env, conf >>

\* lexer.run up to the send of emit or errorf: the scanner has built its
\* next item and waits for the parser to take it
ScanToEmit ==
  /\ pc.scanner = "running"
  /\ pc' = [pc EXCEPT !.scanner = "sending", !.made = pc.made + 1]
  /\ UNCHANGED << doc, tree, env, conf, last >>

\* the send of emit or errorf meets the receive of nextItem; after errorf
\* the state function is nil and run returns
HandOver ==
  /\ pc.parser = "parsing"
  /\ pc.scanner = "sending"
  /\ tree.received < last.received
  /\ tree' = [tree EXCEPT !.received = tree.received + 1]
  /\ pc' = [pc EXCEPT !.scanner = IF SentItem(pc.made).typ = "itemError" THEN "finished"
                                  ELSE "running"]
  /\ UNCHANGED << doc, env, conf, last >>

\* Parse returns, through stopParse or through recover; or the parser stays
\* in a receive that the finished scanner never serves
ParseReturns ==
  /\ pc.parser = "parsing"
  /\ tree.received = last.received
  /\ tree' = last
  /\ pc' = [pc EXCEPT !.parser = CASE tree'.status = "ok" -> "parsed"
                                   [] tree'.status = "error" -> "failed"
                                   [] OTHER -> "blocked"]
  /\ UNCHANGED << doc, env, conf, last >>

HandoverNext ==
  \/ StartParse
  \/ ScanToEmit
  \/ HandOver
  \/ ParseReturns

HandoverSpec == HandoverInit /\ [][HandoverNext]_vars

(***************************************************************************)
(* C28                                                                     *)
(***************************************************************************)
\* C28: during a parse the pushback count stays within 0..3, every item that
\* next or peek hands out of the buffer is the one due (the last delivered
\* item after a backup, the joined item and then the item that ended the run
\* after a consolidation), so that the items reach the grammar in the order
\* the scanner emitted them, and the scanner has built at most one item that
\* the parser has not received.
C28_TokensInOrder ==
  /\ tree.peekMax \in 0..3
  /\ tree.faithful
  /\ pc.made - tree.received \in {0, 1}

\* a parse with a consolidation has returned with the scanner one item ahead
C28_Witness ==
  /\ pc.parser = "parsed"
  /\ tree.peekMax = 2
  /\ pc.made - tree.received = 1
  /\ \E i \in 1..Len(tree.items) : tree.items[i].typ = "itemSpace"

(***************************************************************************)
(* C30                                                                     *)
(***************************************************************************)
\* C30: once Parse has returned, with a tree or with an error, the scanner
\* task is not waiting in a send that no receive will meet.
C30_ScannerNotLeftSending ==
  pc.parser \in {"parsed", "failed"} => pc.scanner # "sending"

(***************************************************************************)
(* Chains of substitutions.  A document is a sequence of entries, one per  *)
(* line; the keys a, b and c refer to each other, r is an array.           *)
(***************************************************************************)
ChainEntries ==
  {<<"a", "=", "$", "{", "b", "}">>,
   <<"a", "=", "$", "{", "?", "b", "}">>,
   <<"a", "=", "$", "{", "?", "c", "}">>,
   <<"b", "=", "$", "{", "c", "}">>,
   <<"b", "=", "$", "{", "?", "c", "}">>,
   <<"c", "=", "1">>,
   <<"r", "=", "[", "$", "{", "a", "}", "]">>,
   <<"r", "=", "[", "$", "{", "?", "b", "}", ",", "2", "]">>}

\* entries in a document
MaxChain == 3

ChainDocs == UNION {[1..n -> ChainEntries] : n \in 1..MaxChain}

RECURSIVE ChainText(_)
ChainText(d) ==
  IF Len(d) = 1 THEN d[1] ELSE d[1] \o << NL >> \o ChainText(Tail(d))

ChainNames == {<<"b">>, <<"c">>}

ChainPaths == {<<"a">>, <<"b">>, <<"r">>}

ChainInit ==
  /\ doc \in ChainDocs
  /\ pc = "start"
  /\ tree = noTree
  /\ env = << >>
  /\ conf = NoNode
  /\ last = noCall

ChainNext ==
  \/ DoParseText(ChainText(doc))
  \/ GetConfig
  \/ \E path \in ChainPaths : DoGetValue(path)
  \/ \E path \in ChainPaths : DoGetArray(path)
  \/ UseView
  \/ \E i \in 1..2 : UseElem(i)
  \/ \E name \in ChainNames : Setenv(name, <<"7">>)
  \/ \E name \in ChainNames : Unsetenv(name)

ChainSpec == ChainInit /\ [][ChainNext]_vars

FieldToField(n) ==
  /\ n.t = "Field"
  /\ \/ n.fallback.t = "Field"
     \/ RawLookup(tree.root, FieldString(n)).t = "Field"

====
